---- MODULE Spec2Model ----
(***************************************************************************)
(* Verification model of the rendering-resource core of PMK:               *)
(*   TextureAtlas   (shelf bin packing)      ui/managers/TextureAtlas.hpp  *)
(*   IconManager    (LRU font texture cache) ui/managers/IconManager.cpp   *)
(*   DeviceManager  (backend fallback)       ui/managers/DeviceManager.hpp *)
(*   CommandBuffer  (frame ring, upload)     ui/managers/CommandBuffer.hpp *)
(*   TextUtils      (wrapping)               ui/core/TextUtils.hpp         *)
(*   FontManager    (measure, rasterize)     ui/managers/FontManager.hpp   *)
(* Each component has its own specification (SpecAtlas, SpecIcon, ...);    *)
(* the variables of the other components stay at their initial values.     *)
(***************************************************************************)
EXTENDS Integers, Sequences, FiniteSets, TLC

VARIABLES
    \* ---- TextureAtlas ----
    m_size,            \* atlas edge length in pixels
    m_padding,         \* padding added to both glyph dimensions
    m_shelves,         \* sequence of Shelf {y, height, x}
    m_currentShelfY,   \* vertical cursor
    m_glyphMap,        \* codepoint -> AtlasGlyph (function on the packed code points)
    atlasCall,         \* record of the last TextureAtlas call and its result
    \* ---- IconManager ----
    m_fontTextureCache, \* cache key -> CachedTextureEntry
    m_fonts,            \* names of the loaded icon fonts
    m_evictionCount,    \* statistics counter
    iconDevice,         \* m_deviceManager->getDevice() != nullptr
    iconNow,            \* last value read from steady_clock::now()
    iconCall,           \* record of the last IconManager call and its result
    \* ---- DeviceManager ----
    m_gpuDevice,           \* index of the backend the device was created on, or NoDevice
    m_gpuDriver,           \* name of the backend that created the device
    m_claimedWindows,      \* ids of the windows claimed for the device
    m_currentBackendIndex, \* index (from 0) of the backend last locked in
    devCall,               \* record of the last DeviceManager call, with its SDL calls
    \* ---- CommandBuffer ----
    m_frameResources,      \* slot -> FrameResource {vertexBuffer, indexBuffer, sizes}
    m_frameIndex,          \* frame counter
    m_transferBuffer,      \* capacity of the transfer buffer object, NoBuffer if null
    m_transferBufferSize,  \* recorded capacity of the transfer buffer
    cbDevice,              \* m_deviceManager.getDevice() != nullptr
    inFlight,              \* ring slots of the submitted frames the GPU has not finished
    cbFaulted,             \* a GPU buffer creation has failed (the driver fails at most one)
    cbCall,                \* record of the last CommandBuffer call
    \* ---- TextUtils ----
    wrapText,              \* text argument, a sequence of bytes
    wrapMaxWidth,          \* maxWidth argument
    wrapMode,              \* policies::TextWrap argument
    wrapAdvance,           \* the measure function, as the advance of each byte
    wrapCall,              \* record of the last TextUtils call
    \* ---- FontManager::measureString ----
    measText,              \* the UTF-8 text being measured, a sequence of bytes
    measMaxWidth,          \* maxWidth argument
    measFont,              \* the loaded face: advances, kerning, glyph coverage
    measPos,               \* byte offset from which the caller measures next
    measCovered,           \* concatenation of the chunks measured so far
    measCall,              \* record of the last measureString call
    \* ---- FontManager: rasterizer ----
    m_loaded,              \* a font has been loaded
    m_ftFace,              \* the FreeType face exists
    m_fontSize,            \* active font size, in tenths of a pixel
    ftPixelSize,           \* pixel size the FreeType face is set to, 0 without a face
    ftScalable,            \* the face accepts every pixel size (else only the loaded one)
    m_glyphCache,          \* cache key -> advanceX of the cached glyph
    ftFontData,            \* number of the font data the last face was created from
    glyphFont,             \* cache key -> the font data its glyph was rasterized from
    fontCall,              \* record of the last rasterizer call
    \* ---- FontManager::decodeUTF8 ----
    decText,               \* the string view passed to decodeUTF8, a sequence of bytes
    decCall,               \* record of the last decodeUTF8 call and its result
    \* ---- IconManager: cache key of a request ----
    keySizeA,              \* size argument of a first getTextureInfo request
    keySizeB,              \* size argument of a second request for the same icon
    keyCall,               \* the quantized sizes and cache keys of the two requests
    \* ---- TextRenderHelper / FontAtlasManager ----
    prepText,              \* text argument of prepareTextRender, a sequence of bytes
    prepFace,              \* the loaded font: what renderGlyph gives for each code point
    prepAtlas,             \* the atlas of the font atlas manager: size, shelves, glyph map
    prepCall               \* record of the last prepareTextRender call

atlasVars == <<m_size, m_padding, m_shelves, m_currentShelfY, m_glyphMap, atlasCall>>

iconVars == <<m_fontTextureCache, m_fonts, m_evictionCount, iconDevice, iconNow, iconCall>>

devVars == <<m_gpuDevice, m_gpuDriver, m_claimedWindows, m_currentBackendIndex, devCall>>

cbVars == <<m_frameResources, m_frameIndex, m_transferBuffer, m_transferBufferSize,
           cbDevice, inFlight, cbFaulted, cbCall>>

wrapVars == <<wrapText, wrapMaxWidth, wrapMode, wrapAdvance, wrapCall>>

measVars == <<measText, measMaxWidth, measFont, measPos, measCovered, measCall>>

fontVars == <<m_loaded, m_ftFace, m_fontSize, ftPixelSize, ftScalable, m_glyphCache,
              ftFontData, glyphFont, fontCall>>

decVars == <<decText, decCall>>

keyVars == <<keySizeA, keySizeB, keyCall>>

prepVars == <<prepText, prepFace, prepAtlas, prepCall>>

vars == <<atlasVars, iconVars, devVars, cbVars, wrapVars, measVars, fontVars, decVars,
          keyVars, prepVars>>

(***************************************************************************)
(* Generic helpers.  All quantities stay far below 2^32 within the bounds, *)
(* so the uint32_t arithmetic of the sources never wraps here.             *)
(***************************************************************************)
\* the last element instead of the first
LastOf(S) == CHOOSE m \in S : \A n \in S : m >= n

MinOf(S) == CHOOSE m \in S : \A n \in S : m <= n

MaxOf(S) == CHOOSE m \in S : \A n \in S : m >= n

(***************************************************************************)
(* TextureAtlas                                                            *)
(***************************************************************************)
\* bounds of the atlas model (the program's 2048/4096 pixels are scaled down)
AtlasLimitLog == 2
MaxShelves == 2

\* expand() refuses to grow at or beyond this size (4096 in the source)
ATLAS_MAX_SIZE == 2 ^ AtlasLimitLog

\* the code points offered to addGlyph, and the paddings an atlas is built with
AtlasCodepoints == {65, 66}

AtlasPaddings == {0, 1}

\* bitmap widths and heights offered to addGlyph (0: an empty bitmap)
GlyphDims == {0, 1, 2}

AtlasSizes == {2 ^ k : k \in 1..AtlasLimitLog}

NoGlyph == [none |-> TRUE]

\* AtlasGlyph: the UVs are kept as exact fractions <<numerator, denominator>>
MakeAtlasGlyph(xPos, yPos, width, height, fSize) ==
    [x |-> xPos, y |-> yPos, width |-> width, height |-> height,
     u0 |-> <<xPos, fSize>>, v0 |-> <<yPos, fSize>>,
     u1 |-> <<(xPos + width), fSize>>, v1 |-> <<(yPos + height), fSize>>]

\* the shelf after a glyph of padded width glyphWidth was placed on it
PlaceOnShelfNoAdvance(shelf, glyphWidth) == shelf

PlaceOnShelf(shelf, glyphWidth) == [shelf EXCEPT !.x = (@ + glyphWidth)]

\* an allocate whose first fit does not look at the height of the shelf
AllocateAnyHeight(shelves, shelfY, size, padding, width, height) ==
    LET glyphWidth == (width + padding)
        glyphHeight == (height + padding)
        fit == {i \in 1..Len(shelves) : (shelves[i].x + glyphWidth) <= size}
    IN  IF fit # {}
        THEN LET i == MinOf(fit)
             IN  [ok |-> TRUE, x |-> shelves[i].x, y |-> shelves[i].y,
                  shelves |-> [shelves EXCEPT ![i] = PlaceOnShelf(@, glyphWidth)],
                  shelfY |-> shelfY]
        ELSE IF (shelfY + glyphHeight) <= size
        THEN [ok |-> TRUE, x |-> 0, y |-> shelfY,
              shelves |-> Append(shelves,
                                 [y |-> shelfY, height |-> glyphHeight, x |-> glyphWidth]),
              shelfY |-> (shelfY + glyphHeight)]
        ELSE [ok |-> FALSE, x |-> 0, y |-> 0, shelves |-> shelves, shelfY |-> shelfY]

\* allocate(width, height): first fit over the shelves, else a new shelf
Allocate(shelves, shelfY, size, padding, width, height) ==
    LET glyphWidth == (width + padding)
        glyphHeight == (height + padding)
        fit == {i \in 1..Len(shelves) :
                    /\ shelves[i].height >= glyphHeight
                    /\ (shelves[i].x + glyphWidth) <= size}
    IN  IF fit # {}
        THEN LET i == MinOf(fit)
             IN  [ok |-> TRUE, x |-> shelves[i].x, y |-> shelves[i].y,
                  shelves |-> [shelves EXCEPT ![i] = PlaceOnShelf(@, glyphWidth)],
                  shelfY |-> shelfY]
        ELSE IF (shelfY + glyphHeight) <= size
        THEN [ok |-> TRUE, x |-> 0, y |-> shelfY,
              shelves |-> Append(shelves,
                                 [y |-> shelfY, height |-> glyphHeight, x |-> glyphWidth]),
              shelfY |-> (shelfY + glyphHeight)]
        ELSE [ok |-> FALSE, x |-> 0, y |-> 0, shelves |-> shelves, shelfY |-> shelfY]

\* the glyph map expand() leaves behind
ExpandKeepGlyphs(glyphMap) == glyphMap

ExpandedGlyphMap(glyphMap) == << >>

\* an expand without the size limit
ExpandNoLimit(size, shelves, shelfY, glyphMap, texOk) ==
    IF ~texOk
    THEN [ok |-> FALSE, size |-> size, shelves |-> shelves, shelfY |-> shelfY,
          glyphMap |-> glyphMap]
    ELSE [ok |-> TRUE, size |-> (size * 2), shelves |-> << >>, shelfY |-> 0,
          glyphMap |-> ExpandedGlyphMap(glyphMap)]

\* expand(): texOk is the outcome of SDL_CreateGPUTexture for the doubled texture
Expand(size, shelves, shelfY, glyphMap, texOk) ==
    IF size >= ATLAS_MAX_SIZE \/ ~texOk
    THEN [ok |-> FALSE, size |-> size, shelves |-> shelves, shelfY |-> shelfY,
          glyphMap |-> glyphMap]
    ELSE [ok |-> TRUE, size |-> (size * 2), shelves |-> << >>, shelfY |-> 0,
          glyphMap |-> ExpandedGlyphMap(glyphMap)]

\* uploadBitmap(): fails on an empty rectangle (callers pass a non-null bitmap)
UploadBitmap(width, height) == width > 0 /\ height > 0

AtlasStart ==
    /\ m_size \in AtlasSizes
    /\ m_padding \in AtlasPaddings
    /\ m_shelves = << >>
    /\ m_currentShelfY = 0
    /\ m_glyphMap = << >>
    /\ atlasCall = [op |-> "init"]

\* addGlyph(codepoint, bitmap, width, height, ...)
AddGlyph(codepoint, width, height, texOk) ==
    IF codepoint \in DOMAIN m_glyphMap
    THEN /\ atlasCall' = [op |-> "addGlyph", codepoint |-> codepoint, path |-> "cached",
                          ret |-> m_glyphMap[codepoint], expanded |-> FALSE,
                          before |-> m_glyphMap]
         /\ UNCHANGED <<m_size, m_padding, m_shelves, m_currentShelfY, m_glyphMap>>
    ELSE
    LET a1 == Allocate(m_shelves, m_currentShelfY, m_size, m_padding, width, height)
        ex == IF a1.ok
              THEN [ok |-> FALSE, size |-> m_size, shelves |-> a1.shelves,
                    shelfY |-> a1.shelfY, glyphMap |-> m_glyphMap]
              ELSE Expand(m_size, m_shelves, m_currentShelfY, m_glyphMap, texOk)
        a2 == IF a1.ok THEN a1
              ELSE IF ex.ok
              THEN Allocate(ex.shelves, ex.shelfY, ex.size, m_padding, width, height)
              ELSE [ok |-> FALSE, x |-> 0, y |-> 0, shelves |-> ex.shelves,
                    shelfY |-> ex.shelfY]
        uploaded == a2.ok /\ UploadBitmap(width, height)
        glyph == MakeAtlasGlyph(a2.x, a2.y, width, height, ex.size)
    IN  /\ m_size' = ex.size
        /\ m_shelves' = a2.shelves
        /\ m_currentShelfY' = a2.shelfY
        /\ m_glyphMap' = IF uploaded
                         THEN [c \in DOMAIN ex.glyphMap \cup {codepoint} |->
                                  IF c = codepoint THEN glyph ELSE ex.glyphMap[c]]
                         ELSE ex.glyphMap
        /\ atlasCall' = [op |-> "addGlyph", codepoint |-> codepoint,
                         path |-> IF uploaded THEN "packed"
                                  ELSE IF a2.ok THEN "uploadFailed"
                                  ELSE IF ex.ok THEN "stillFull" ELSE "expandFailed",
                         ret |-> IF uploaded THEN glyph ELSE NoGlyph,
                         expanded |-> ex.ok, before |-> m_glyphMap]
        /\ UNCHANGED m_padding

\* clear()
AtlasClear ==
    /\ m_glyphMap' = << >>
    /\ m_shelves' = << >>
    /\ m_currentShelfY' = 0
    /\ atlasCall' = [op |-> "clear"]
    /\ UNCHANGED <<m_size, m_padding>>

AtlasAddGlyphStep ==
    /\ Len(m_shelves) < MaxShelves
    /\ \E codepoint \in AtlasCodepoints,
          width \in GlyphDims, height \in GlyphDims, texOk \in BOOLEAN :
            AddGlyph(codepoint, width, height, texOk)

AtlasIdle ==
    /\ m_size = ATLAS_MAX_SIZE
    /\ m_padding = 0
    /\ m_shelves = << >>
    /\ m_currentShelfY = 0
    /\ m_glyphMap = << >>
    /\ atlasCall = [op |-> "init"]

(***************************************************************************)
(* IconManager: LRU font texture cache                                     *)
(***************************************************************************)
\* capacity constants of the cache, scaled down from 128 and 16
MAX_FONT_CACHE_SIZE == 2
EVICTION_BATCH == 1
\* bounds of the cache model
MaxClock == 1
MaxAccessCount == 2
MaxEvictionCount == 1

STANDARD_SIZES == <<16, 24, 32, 48, 64, 96, 128>>

\* the font names and code points offered to the calls
IconFonts == {"solid"}

IconCodepoints == {61440, 61441}

\* requested icon sizes: two on the first rung of the ladder, one on the second
IconSizes == {12, 16, 24}

\* outcomes of FreeType for the glyph: rasterized, an error of FT_Set_Pixel_Sizes /
\* FT_Load_Glyph / FT_Render_Glyph (all return nullptr alike), or an empty bitmap
FtOutcomes == {"ok", "loadFail", "emptyBitmap"}

\* a quantizeSize that rounds down to the ladder
QuantizeSizeDown(size) ==
    LET rungs == {i \in 1..Len(STANDARD_SIZES) : STANDARD_SIZES[i] <= size}
    IN  IF rungs # {} THEN STANDARD_SIZES[MaxOf(rungs)] ELSE 16

\* quantizeSize(size): the first ladder value that is >= size, else 128
QuantizeSize(size) ==
    LET rungs == {i \in 1..Len(STANDARD_SIZES) : size <= STANDARD_SIZES[i]}
    IN  IF rungs # {} THEN STANDARD_SIZES[MinOf(rungs)] ELSE 128

\* cacheKey = fontName + "_" + codepoint + "_" + int(quantizedSize)
CacheKey(fontName, codepoint, size) == <<fontName, codepoint, QuantizeSize(size)>>

CacheSize(cache) == Cardinality(DOMAIN cache)

\* an erase that removes nothing
WithoutErase(cache, keys) == cache

Without(cache, keys) == [k \in DOMAIN cache \ keys |-> cache[k]]

\* a hit that forgets the earlier accesses of the entry
TouchEntryReset(entry, now) == [lastAccessTime |-> now, accessCount |-> 1]

\* the update of a cache hit: lastAccessTime = now(), accessCount++
TouchEntry(entry, now) ==
    [lastAccessTime |-> now, accessCount |-> entry.accessCount + 1]

\* no access time: the cache is empty, or the call did not look for a victim
NoTime == -1

\* the smallest lastAccessTime in the cache
OldestAccess(cache) ==
    IF cache = << >> THEN NoTime
    ELSE MinOf({cache[k].lastAccessTime : k \in DOMAIN cache})

\* a scan that ends on whatever entry the map iterates last
LruCandidatesAny(cache) == DOMAIN cache

\* the entries the linear scan of evictLRUFromFontCache may end on: the scan
\* keeps the first entry of minimum lastAccessTime in the map's iteration order
LruCandidates(cache) ==
    {k \in DOMAIN cache : \A j \in DOMAIN cache :
        cache[k].lastAccessTime <= cache[j].lastAccessTime}

\* the sets std::sort by access time may put in the first EVICTION_BATCH places
BatchCandidates(cache) ==
    LET n == IF EVICTION_BATCH < CacheSize(cache) THEN EVICTION_BATCH ELSE CacheSize(cache)
    IN  {B \in SUBSET DOMAIN cache :
            /\ Cardinality(B) = n
            /\ \A b \in B : \A k \in DOMAIN cache \ B :
                  cache[b].lastAccessTime <= cache[k].lastAccessTime}

\* does a miss have to evict before it inserts
NeedsEvictionLate(cache) == CacheSize(cache) > MAX_FONT_CACHE_SIZE

NeedsEviction(cache) == CacheSize(cache) >= MAX_FONT_CACHE_SIZE

\* evictLRUFromFontCache(): victim is the scan's result, batch the sort's prefix
EvictLRUFromFontCache(cache, count, deviceOk, victim, batch) ==
    IF cache = << >> \/ ~deviceOk
    THEN [cache |-> cache, count |-> count]
    ELSE LET c1 == Without(cache, {victim})
         IN  IF CacheSize(c1) >= MAX_FONT_CACHE_SIZE
             THEN [cache |-> Without(c1, batch),
                   count |-> count + 1 + Cardinality(batch \cap DOMAIN c1)]
             ELSE [cache |-> c1, count |-> count + 1]

IconStart ==
    /\ m_fontTextureCache = << >>
    /\ m_fonts = {}
    /\ m_evictionCount = 0
    /\ iconDevice \in BOOLEAN
    /\ iconNow = 0
    /\ iconCall = [op |-> "init"]

IconIdle ==
    /\ m_fontTextureCache = << >>
    /\ m_fonts = {}
    /\ m_evictionCount = 0
    /\ iconDevice = FALSE
    /\ iconNow = 0
    /\ iconCall = [op |-> "init"]

\* getTextureInfo(fontName, codepoint, size).  now is the clock value the call
\* reads, ft the FreeType outcome, texOk that of createAndUploadIconTexture.
GetTextureInfo(fontName, codepoint, size, now, victim, batch, ft, texOk) ==
    LET cacheKey == CacheKey(fontName, codepoint, size)
        cache == m_fontTextureCache
    IN  IF cacheKey \in DOMAIN cache
        THEN /\ m_fontTextureCache' = [cache EXCEPT ![cacheKey] = TouchEntry(@, now)]
             /\ iconNow' = now
             /\ iconCall' = [op |-> "getTextureInfo", key |-> cacheKey, path |-> "hit",
                             evicted |-> 0, peak |-> CacheSize(cache),
                             held |-> CacheSize(cache),
                             created |-> 0, removed |-> {}, oldest |-> NoTime]
             /\ UNCHANGED <<m_fonts, m_evictionCount, iconDevice>>
        ELSE
        LET ev == IF NeedsEviction(cache)
                  THEN EvictLRUFromFontCache(cache, m_evictionCount, iconDevice,
                                             victim, batch)
                  ELSE [cache |-> cache, count |-> m_evictionCount]
            path == IF fontName \notin m_fonts THEN "noFont"
                    ELSE IF ft # "ok" THEN ft
                    ELSE IF ~iconDevice THEN "noDevice"
                    ELSE IF ~texOk THEN "textureFailed"
                    ELSE "inserted"
            after == IF path = "inserted"
                     THEN [k \in DOMAIN ev.cache \cup {cacheKey} |->
                              IF k = cacheKey
                              THEN [lastAccessTime |-> now, accessCount |-> 1]
                              ELSE ev.cache[k]]
                     ELSE ev.cache
        IN  /\ m_fontTextureCache' = after
            /\ m_evictionCount' = ev.count
            /\ iconNow' = IF path = "inserted" THEN now ELSE iconNow
            /\ iconCall' = [op |-> "getTextureInfo", key |-> cacheKey,
                            path |-> IF path = "inserted" THEN "inserted" ELSE "null",
                            evicted |-> ev.count - m_evictionCount,
                            peak |-> MaxOf({CacheSize(cache), CacheSize(ev.cache),
                                            CacheSize(after)}),
                            held |-> CacheSize(cache),
                            created |-> IF path = "inserted" THEN 1 ELSE 0,
                            removed |-> {cache[k].lastAccessTime :
                                            k \in DOMAIN cache \ DOMAIN ev.cache},
                            oldest |-> OldestAccess(cache)]
            /\ UNCHANGED <<m_fonts, iconDevice>>

IconGetTextureInfo ==
    \E fontName \in IconFonts, codepoint \in IconCodepoints, size \in IconSizes,
       now \in {iconNow, iconNow + 1} :
        /\ now <= MaxClock
        /\ IF CacheKey(fontName, codepoint, size) \in DOMAIN m_fontTextureCache
           THEN /\ m_fontTextureCache[CacheKey(fontName, codepoint, size)].accessCount
                      < MaxAccessCount
                /\ GetTextureInfo(fontName, codepoint, size, now, <<>>, {}, "ok", TRUE)
           ELSE /\ m_evictionCount < MaxEvictionCount
                /\ \E victim \in (IF m_fontTextureCache = << >> THEN {<< >>}
                                  ELSE LruCandidates(m_fontTextureCache)) :
                   \E batch \in (IF m_fontTextureCache = << >> THEN {{}}
                                 ELSE BatchCandidates(Without(m_fontTextureCache,
                                                              {victim}))) :
                   \E ft \in (IF fontName \in m_fonts THEN FtOutcomes ELSE {"ok"}) :
                   \E texOk \in (IF fontName \in m_fonts /\ ft = "ok" /\ iconDevice
                                 THEN BOOLEAN ELSE {TRUE}) :
                      GetTextureInfo(fontName, codepoint, size, now, victim, batch,
                                     ft, texOk)

\* loadIconFont / loadIconFontFromMemory(name, ...): ok is the FreeType outcome
LoadIconFont(name, ok) ==
    /\ m_fonts' = IF ok THEN m_fonts \cup {name} ELSE m_fonts
    /\ iconCall' = [op |-> "loadIconFont"]
    /\ UNCHANGED <<m_fontTextureCache, m_evictionCount, iconDevice, iconNow>>

IconLoadIconFont == \E name \in IconFonts, ok \in BOOLEAN : LoadIconFont(name, ok)

\* unloadIconFont(fontName)
UnloadIconFont(fontName) ==
    /\ m_fonts' = m_fonts \ {fontName}
    /\ iconCall' = [op |-> "unloadIconFont"]
    /\ UNCHANGED <<m_fontTextureCache, m_evictionCount, iconDevice, iconNow>>

IconUnloadIconFont == \E fontName \in IconFonts : UnloadIconFont(fontName)

\* shutdown()
IconShutdown ==
    /\ m_fontTextureCache' = << >>
    /\ m_fonts' = {}
    /\ iconCall' = [op |-> "shutdown"]
    /\ UNCHANGED <<m_evictionCount, iconDevice, iconNow>>

\* the device manager gains or loses its device (initialize / cleanup)
IconDeviceChange ==
    /\ iconDevice' = ~iconDevice
    /\ iconCall' = [op |-> "deviceChange"]
    /\ UNCHANGED <<m_fontTextureCache, m_fonts, m_evictionCount, iconNow>>

NextIcon ==
    \/ IconGetTextureInfo
    \/ IconLoadIconFont
    \/ IconUnloadIconFont
    \/ IconShutdown
    \/ IconDeviceChange

(***************************************************************************)
(* DeviceManager: ordered backend fallback                                 *)
(***************************************************************************)
\* m_backends as the constructor fills it
Backends == <<"direct3d12", "vulkan", "swiftshader-vulkan">>

NumBackends == Len(Backends)

BackendIndexes == 0..(NumBackends - 1)

NoDevice == -1

\* window ids offered to claimWindow / unclaimWindow; NullWindow is a null handle
NullWindow == 0

DevWindows == {1, 2}

\* the manager's fields together with the SDL calls made so far in this call
DevState ==
    [dev |-> m_gpuDevice, driver |-> m_gpuDriver, claimed |-> m_claimedWindows,
     cur |-> m_currentBackendIndex, log |-> << >>]

\* a cleanup that does not wait for the GPU
DevCleanupNoWait(d) ==
    IF d.dev = NoDevice THEN d
    ELSE [d EXCEPT !.log = @ \o << <<"releaseAll", d.claimed>>,
                                   <<"destroy", d.dev>> >>,
                   !.claimed = {},
                   !.dev = NoDevice]

\* cleanup(): wait for idle, release every claimed window, destroy the device
DevCleanup(d) ==
    IF d.dev = NoDevice THEN d
    ELSE [d EXCEPT !.log = @ \o << <<"waitIdle", d.dev>>,
                                   <<"releaseAll", d.claimed>>,
                                   <<"destroy", d.dev>> >>,
                   !.claimed = {},
                   !.dev = NoDevice]

\* a createDevice that forgets to record the backend index
DevCreateDeviceNoIndex(d, index, ok) ==
    IF index >= NumBackends THEN d
    ELSE IF ok
    THEN [d EXCEPT !.dev = index, !.driver = Backends[index + 1],
                   !.log = @ \o << <<"create", index, TRUE>> >>]
    ELSE [d EXCEPT !.log = @ \o << <<"create", index, FALSE>> >>]

\* createDevice(index): ok is the outcome of SDL_CreateGPUDeviceWithProperties
DevCreateDevice(d, index, ok) ==
    IF index >= NumBackends THEN d
    ELSE IF ok
    THEN [d EXCEPT !.dev = index, !.driver = Backends[index + 1], !.cur = index,
                   !.log = @ \o << <<"create", index, TRUE>> >>]
    ELSE [d EXCEPT !.log = @ \o << <<"create", index, FALSE>> >>]

\* the first backend claimWindow falls back to
FallbackStartSame(currentIndex) == currentIndex

FallbackStart(currentIndex) == currentIndex + 1

\* the fallback loop of claimWindow from nextIndex on; createOk and claimOk give
\* the outcome of device creation and of the window claim on each backend
RECURSIVE DevFallback(_, _, _, _, _)
DevFallback(d, nextIndex, window, createOk, claimOk) ==
    IF nextIndex >= NumBackends
    THEN [d |-> d, ret |-> FALSE]
    ELSE LET d1 == DevCleanup(d)
             d2 == DevCreateDevice(d1, nextIndex, createOk[nextIndex])
         IN  IF createOk[nextIndex]
             THEN LET d3 == [d2 EXCEPT !.log = @ \o << <<"claim", nextIndex,
                                                         claimOk[nextIndex]>> >>]
                  IN  IF claimOk[nextIndex]
                      THEN [d |-> [d3 EXCEPT !.claimed = @ \cup {window}], ret |-> TRUE]
                      ELSE DevFallback(d3, nextIndex + 1, window, createOk, claimOk)
             ELSE DevFallback(d2, nextIndex + 1, window, createOk, claimOk)

\* claimWindow(sdlWindow)
DevClaimWindowResult(window, createOk, claimOk) ==
    LET d == DevState
    IN  IF d.dev = NoDevice \/ window = NullWindow
        THEN [d |-> d, ret |-> FALSE, path |-> "invalid"]
        ELSE IF window \in d.claimed
        THEN [d |-> d, ret |-> TRUE, path |-> "already"]
        ELSE LET d1 == [d EXCEPT !.log = @ \o << <<"claim", d.dev, claimOk[d.dev]>> >>]
             IN  IF claimOk[d.dev]
                 THEN [d |-> [d1 EXCEPT !.claimed = @ \cup {window}], ret |-> TRUE,
                       path |-> "direct"]
                 ELSE LET r == DevFallback(d1, FallbackStart(d.cur), window,
                                           createOk, claimOk)
                      IN  [d |-> r.d, ret |-> r.ret, path |-> "fallback"]

\* initialize(): the first backend whose device creation succeeds wins
RECURSIVE DevInitLoop(_, _, _)
DevInitLoop(d, i, createOk) ==
    IF i >= NumBackends THEN [d |-> d, ret |-> FALSE]
    ELSE LET d1 == DevCreateDevice(d, i, createOk[i])
         IN  IF createOk[i] THEN [d |-> d1, ret |-> TRUE]
             ELSE DevInitLoop(d1, i + 1, createOk)

DevInitializeResult(createOk) ==
    IF m_gpuDevice # NoDevice THEN [d |-> DevState, ret |-> TRUE]
    ELSE DevInitLoop(DevState, 0, createOk)

DevStore(d, call) ==
    /\ m_gpuDevice' = d.dev
    /\ m_gpuDriver' = d.driver
    /\ m_claimedWindows' = d.claimed
    /\ m_currentBackendIndex' = d.cur
    /\ devCall' = call

DevStart ==
    /\ m_gpuDevice = NoDevice
    /\ m_gpuDriver = ""
    /\ m_claimedWindows = {}
    /\ m_currentBackendIndex = 0
    /\ devCall = [op |-> "init"]

DevInitialize ==
    \E createOk \in [BackendIndexes -> BOOLEAN] :
        LET r == DevInitializeResult(createOk)
        IN  DevStore(r.d, [op |-> "initialize", ret |-> r.ret, log |-> r.d.log,
                           hadDevice |-> m_gpuDevice # NoDevice])

DevClaimWindow ==
    \E window \in DevWindows \cup {NullWindow},
       createOk \in [BackendIndexes -> BOOLEAN], claimOk \in [BackendIndexes -> BOOLEAN] :
        LET r == DevClaimWindowResult(window, createOk, claimOk)
        IN  DevStore(r.d, [op |-> "claimWindow", ret |-> r.ret, path |-> r.path,
                           window |-> window, start |-> m_currentBackendIndex,
                           log |-> r.d.log])

\* unclaimWindow(sdlWindow)
DevUnclaimWindow ==
    \E window \in DevWindows \cup {NullWindow} :
        LET released == m_gpuDevice # NoDevice /\ window # NullWindow
                          /\ window \in m_claimedWindows
        IN  /\ m_claimedWindows' = IF released THEN m_claimedWindows \ {window}
                                   ELSE m_claimedWindows
            /\ devCall' = [op |-> "unclaimWindow", window |-> window,
                           log |-> IF released THEN << <<"release", window>> >>
                                   ELSE << >>]
            /\ UNCHANGED <<m_gpuDevice, m_gpuDriver, m_currentBackendIndex>>

\* cleanup(), also run by the destructor
DevCleanupCall ==
    LET d == DevCleanup(DevState)
    IN  DevStore(d, [op |-> "cleanup", log |-> d.log])

NextDev ==
    \/ DevInitialize
    \/ DevClaimWindow
    \/ DevUnclaimWindow
    \/ DevCleanupCall

(***************************************************************************)
(* CommandBuffer: frame ring, buffer pooling, upload and draw               *)
(***************************************************************************)
MAX_FRAMES_IN_FLIGHT == 2
\* sizeof(uint16_t)
INDEX_SIZE == 2
\* sizeof(render::Vertex); the type is declared outside the modelled sources
VertexBytes == 3
\* bounds of the command buffer model
\* width in bits of the frame counter (uint32_t, scaled)
FrameIndexBits == 1

NoBuffer == 0

FrameSlots == 0..(MAX_FRAMES_IN_FLIGHT - 1)

\* a batch is given by the number of its vertices and of its indices
BatchShapes == {[nv |-> 1, ni |-> 0], [nv |-> 1, ni |-> 1]}

BatchListLengths == {0, 1, 2}

BatchLists == UNION {[1..n -> BatchShapes] : n \in BatchListLengths}

\* the step of execute() at which an SDL call fails, if any
CbFailures == {"none", "transfer", "vertex", "index", "map", "cmd", "swapFail", "swapNull"}

RECURSIVE SumNv(_, _)
SumNv(batches, n) == IF n = 0 THEN 0 ELSE SumNv(batches, n - 1) + batches[n].nv

RECURSIVE SumNi(_, _)
SumNi(batches, n) == IF n = 0 THEN 0 ELSE SumNi(batches, n - 1) + batches[n].ni

\* calculateBatchTotals(batches)
CalculateBatchTotals(batches) ==
    [vertices |-> SumNv(batches, Len(batches)), indices |-> SumNi(batches, Len(batches))]

\* a buffer that is too small grows to the bytes needed, no further
GrowToNeeded(needed, current) == needed

\* new capacity of a buffer that is too small: max(needed, 2 * current)
GrowTo(needed, current) == IF needed > current * 2 THEN needed ELSE current * 2

\* resizeBuffers(device, frame, vSize, iSize): fail names the creation that fails
ResizeBuffers(frame, tSize, tBuf, vSize, iSize, fail) ==
    LET neededTransfer == vSize + iSize
        growT == tSize < neededTransfer
        tSize1 == IF growT THEN GrowTo(neededTransfer, tSize) ELSE tSize
        tBuf1 == IF growT THEN (IF fail = "transfer" THEN NoBuffer ELSE tSize1) ELSE tBuf
        tFailed == growT /\ fail = "transfer"
        growV == ~tFailed /\ frame.vertexBufferSize < vSize
        vSize1 == IF growV THEN GrowTo(vSize, frame.vertexBufferSize)
                  ELSE frame.vertexBufferSize
        vBuf1 == IF growV THEN (IF fail = "vertex" THEN NoBuffer ELSE vSize1)
                 ELSE frame.vertexBuffer
        vFailed == growV /\ fail = "vertex"
        growI == ~tFailed /\ ~vFailed /\ frame.indexBufferSize < iSize
        iSize1 == IF growI THEN GrowTo(iSize, frame.indexBufferSize)
                  ELSE frame.indexBufferSize
        iBuf1 == IF growI THEN (IF fail = "index" THEN NoBuffer ELSE iSize1)
                 ELSE frame.indexBuffer
        iFailed == growI /\ fail = "index"
    IN  [ok |-> ~(tFailed \/ vFailed \/ iFailed),
         frame |-> [vertexBuffer |-> vBuf1, indexBuffer |-> iBuf1,
                    vertexBufferSize |-> vSize1, indexBufferSize |-> iSize1],
         tSize |-> tSize1, tBuf |-> tBuf1,
         touched |-> growV \/ growI]

\* uploadToTransferBuffer(): the memcpy calls in order, as
\* [batch, kind, offset, size] with byte offsets into the mapped transfer buffer
RECURSIVE UploadVertices(_, _, _)
UploadVertices(batches, b, vertexOffset) ==
    IF b > Len(batches) THEN << >>
    ELSE IF batches[b].nv = 0 THEN UploadVertices(batches, b + 1, vertexOffset)
    ELSE LET vSize == batches[b].nv * VertexBytes
         IN  << [batch |-> b, kind |-> "v", offset |-> vertexOffset, size |-> vSize] >>
             \o UploadVertices(batches, b + 1, vertexOffset + vSize)

RECURSIVE UploadIndices(_, _, _)
UploadIndices(batches, b, indexOffset) ==
    IF b > Len(batches) THEN << >>
    ELSE IF batches[b].ni = 0 THEN UploadIndices(batches, b + 1, indexOffset)
    ELSE LET iSize == batches[b].ni * INDEX_SIZE
         IN  << [batch |-> b, kind |-> "i", offset |-> indexOffset, size |-> iSize] >>
             \o UploadIndices(batches, b + 1, indexOffset + iSize)

UploadToTransferBuffer(batches, totalVertexSize) ==
    UploadVertices(batches, 1, 0) \o UploadIndices(batches, 1, totalVertexSize)

\* does recordRenderPass leave a batch out
SkipsDraw(batch) == batch.nv = 0 \/ batch.ni = 0

\* recordRenderPass(): the indexed draw calls in order, as
\* [batch, numIndices, firstIndex, vertexOffset] (offsets in indices and vertices)
RECURSIVE RecordDraws(_, _, _, _)
RecordDraws(batches, b, currentVertexOffset, currentIndexOffset) ==
    IF b > Len(batches) THEN << >>
    ELSE IF SkipsDraw(batches[b])
    THEN RecordDraws(batches, b + 1, currentVertexOffset, currentIndexOffset)
    ELSE << [batch |-> b, numIndices |-> batches[b].ni,
             firstIndex |-> currentIndexOffset,
             vertexOffset |-> currentVertexOffset] >>
         \o RecordDraws(batches, b + 1, currentVertexOffset + batches[b].nv,
                        currentIndexOffset + batches[b].ni)

RecordRenderPass(batches) == RecordDraws(batches, 1, 0, 0)

\* recordCopyPass(): transfer bytes [0, totalVertexSize) go to offset 0 of the
\* vertex buffer, the bytes after them to offset 0 of the index buffer; the
\* result is where an uploaded block lies in its GPU buffer
RecordCopyPass(upload, totalVertexSize) ==
    IF upload.kind = "v" THEN upload.offset ELSE upload.offset - totalVertexSize

\* the batches whose draw call reads other bytes than the ones uploaded for them
Misdrawn(batches) ==
    LET totalVertexSize == CalculateBatchTotals(batches).vertices * VertexBytes
        uploads == UploadToTransferBuffer(batches, totalVertexSize)
        draws == RecordRenderPass(batches)
        Reads(d, kind, byteOffset) ==
            \E k \in 1..Len(uploads) :
                /\ uploads[k].batch = d.batch
                /\ uploads[k].kind = kind
                /\ RecordCopyPass(uploads[k], totalVertexSize) = byteOffset
    IN  {draws[n].batch : n \in {m \in 1..Len(draws) :
            ~(/\ Reads(draws[m], "v", draws[m].vertexOffset * VertexBytes)
              /\ Reads(draws[m], "i", draws[m].firstIndex * INDEX_SIZE))}}

\* the number of values of the frame counter
FrameIndexModulus == 2 ^ FrameIndexBits

\* a counter that advances by two
NextFrameIndexSkip(frameIndex) == (frameIndex + 2) % FrameIndexModulus

\* m_frameIndex++ on an unsigned counter
NextFrameIndex(frameIndex) == (frameIndex + 1) % FrameIndexModulus

\* a ring that never leaves its first slot
FrameSlotStuck(frameIndex) == 0

\* the ring slot of a frame: m_frameIndex % MAX_FRAMES_IN_FLIGHT
FrameSlot(frameIndex) == frameIndex % MAX_FRAMES_IN_FLIGHT

CbStart ==
    /\ m_frameResources = [slot \in FrameSlots |->
                              [vertexBuffer |-> NoBuffer, indexBuffer |-> NoBuffer,
                               vertexBufferSize |-> 0, indexBufferSize |-> 0]]
    /\ m_frameIndex = 0
    /\ m_transferBuffer = NoBuffer
    /\ m_transferBufferSize = 0
    /\ cbDevice \in BOOLEAN
    /\ inFlight = << >>
    /\ cbFaulted = FALSE
    /\ cbCall = [op |-> "init"]

CbIdle ==
    /\ m_frameResources = [slot \in FrameSlots |->
                              [vertexBuffer |-> NoBuffer, indexBuffer |-> NoBuffer,
                               vertexBufferSize |-> 0, indexBufferSize |-> 0]]
    /\ m_frameIndex = 0
    /\ m_transferBuffer = NoBuffer
    /\ m_transferBufferSize = 0
    /\ cbDevice = FALSE
    /\ inFlight = << >>
    /\ cbFaulted = FALSE
    /\ cbCall = [op |-> "init"]

\* execute(window, width, height, batches); fail is the SDL call that fails
Execute(batches, fail) ==
    LET totals == CalculateBatchTotals(batches)
        totalVertexSize == totals.vertices * VertexBytes
        totalIndexSize == totals.indices * INDEX_SIZE
        slot == FrameSlot(m_frameIndex)
        rs == ResizeBuffers(m_frameResources[slot], m_transferBufferSize,
                            m_transferBuffer, totalVertexSize, totalIndexSize, fail)
        mapped == rs.tBuf # NoBuffer /\ fail # "map"
        path == IF ~cbDevice THEN "noDevice"
                ELSE IF totals.vertices = 0 \/ totals.indices = 0 THEN "empty"
                ELSE IF ~rs.ok THEN "resizeFailed"
                ELSE IF ~mapped \/ fail \in {"cmd", "swapFail"} THEN "aborted"
                ELSE IF fail = "swapNull" THEN "noSwapchainTexture"
                ELSE "submitted"
        resized == path \notin {"noDevice", "empty"}
        wrote == (resized /\ rs.touched) \/ path = "submitted"
        uploaded == cbDevice /\ totals.vertices # 0 /\ totals.indices # 0 /\ rs.ok /\ mapped
    IN  /\ m_frameResources' = IF resized THEN [m_frameResources EXCEPT ![slot] = rs.frame]
                               ELSE m_frameResources
        /\ m_transferBufferSize' = IF resized THEN rs.tSize ELSE m_transferBufferSize
        /\ m_transferBuffer' = IF resized THEN rs.tBuf ELSE m_transferBuffer
        /\ m_frameIndex' = IF path = "submitted" THEN NextFrameIndex(m_frameIndex)
                           ELSE m_frameIndex
        /\ inFlight' = IF path = "submitted" THEN Append(inFlight, slot) ELSE inFlight
        /\ cbCall' = [op |-> "execute", path |-> path,
                      drawn |-> IF path = "submitted"
                                THEN Len(RecordRenderPass(batches)) ELSE 0,
                      misdrawn |-> IF path = "submitted" THEN Misdrawn(batches) ELSE {},
                      slot |-> slot, pending |-> inFlight, wrote |-> wrote,
                      uploaded |-> IF uploaded
                                   THEN <<totalVertexSize, totalIndexSize>>
                                   ELSE <<0, 0>>]
        /\ cbFaulted' = (cbFaulted \/ path = "resizeFailed")
        /\ UNCHANGED cbDevice

\* the application calls execute with at most MAX_FRAMES_IN_FLIGHT frames pending
CbExecute ==
    /\ Len(inFlight) <= MAX_FRAMES_IN_FLIGHT
    /\ \E batches \in BatchLists :
          LET totals == CalculateBatchTotals(batches)
          IN  IF ~cbDevice \/ totals.vertices = 0 \/ totals.indices = 0
              THEN Execute(batches, "none")
              ELSE \E fail \in CbFailures :
                      /\ fail \in {"transfer", "vertex", "index"} => ~cbFaulted
                      /\ Execute(batches, fail)

\* the GPU finishes the oldest submitted frame (one queue, in submission order)
CbGpuComplete ==
    /\ inFlight # << >>
    /\ inFlight' = Tail(inFlight)
    /\ cbCall' = [op |-> "gpuComplete"]
    /\ UNCHANGED <<m_frameResources, m_frameIndex, m_transferBuffer,
                   m_transferBufferSize, cbDevice, cbFaulted>>

\* cleanup(), also run by the destructor
CbCleanup ==
    /\ m_frameResources' = [slot \in FrameSlots |->
                               [vertexBuffer |-> NoBuffer, indexBuffer |-> NoBuffer,
                                vertexBufferSize |-> 0, indexBufferSize |-> 0]]
    /\ m_transferBuffer' = NoBuffer
    /\ m_transferBufferSize' = 0
    /\ cbCall' = [op |-> "cleanup"]
    /\ UNCHANGED <<m_frameIndex, cbDevice, inFlight, cbFaulted>>

NextCb ==
    \/ CbExecute
    \/ CbGpuComplete
    \/ CbCleanup

(***************************************************************************)
(* TextUtils: UTF-8 stepping and line wrapping                              *)
(***************************************************************************)
MaxTextLen == 3

\* '\n', ' ', 'a', and the two bytes of U+00E9
WrapBytes == {10, 32, 97, 195, 169}

WrapTexts == UNION {[1..n -> WrapBytes] : n \in 0..MaxTextLen}

WrapWidths == {-1, 0, 1, 2}

WrapModes == {"NONE", "Word", "Char"}

\* measure functions: the width of a string is the sum of the advances of its
\* code points; a continuation byte and a newline advance by nothing
WrapMeasures ==
    {[b \in WrapBytes |-> CASE b = 32 -> 1
                            [] b = 97 -> a
                            [] b = 195 -> e
                            [] OTHER -> 0] : a \in {1, 2}, e \in {1, 3}}

RECURSIVE Measure(_, _)
Measure(advance, str) ==
    IF str = << >> THEN 0 ELSE advance[Head(str)] + Measure(advance, Tail(str))

\* IsUtf8StartByte(c): (c & 0xC0) != 0x80
IsUtf8StartByte(c) == (c \div 64) % 4 # 2

\* a substr that drops its last byte
SubstrShort(text, pos, count) == SubSeq(text, pos + 1, pos + count - 1)

\* substr(pos, count) with a 0-based position
Substr(text, pos, count) == SubSeq(text, pos + 1, pos + count)

RECURSIVE SkipContinuationBytes(_, _)
SkipContinuationBytes(text, newPos) ==
    IF newPos < Len(text) /\ ~IsUtf8StartByte(text[newPos + 1])
    THEN SkipContinuationBytes(text, newPos + 1)
    ELSE newPos

\* a NextCharPos that steps one byte
NextCharPosByte(text, pos) ==
    IF pos >= Len(text) THEN Len(text) ELSE pos + 1

\* NextCharPos(text, pos)
NextCharPos(text, pos) ==
    IF pos >= Len(text) THEN Len(text) ELSE SkipContinuationBytes(text, pos + 1)

\* a line overflows only when it is wider than maxWidth by more than one
ExceedsLoose(width, maxWidth) == width > maxWidth + 1

\* the overflow test of WrapParagraph: width > maxWidth
Exceeds(width, maxWidth) == width > maxWidth

\* the character loop of WrapParagraph (Char mode, and an overlong word in Word
\* mode): returns the lines pushed and the line still open
RECURSIVE CharLoop(_, _, _, _, _, _)
CharLoop(advance, maxWidth, str, i, currentLine, lines) ==
    IF i >= Len(str) THEN [lines |-> lines, currentLine |-> currentLine]
    ELSE LET next == NextCharPos(str, i)
             ch == Substr(str, i, next - i)
         IN  IF Exceeds(Measure(advance, currentLine \o ch), maxWidth)
                /\ currentLine # << >>
             THEN CharLoop(advance, maxWidth, str, next, ch, Append(lines, currentLine))
             ELSE CharLoop(advance, maxWidth, str, next, currentLine \o ch, lines)

\* the pushWord lambda of WrapParagraph on the state [lines, currentLine]
PushWord(advance, maxWidth, st, w) ==
    IF w = << >> THEN st
    ELSE IF Exceeds(Measure(advance, w), maxWidth)
    THEN CharLoop(advance, maxWidth, w, 0, << >>,
                  IF st.currentLine # << >> THEN Append(st.lines, st.currentLine)
                  ELSE st.lines)
    ELSE LET testLine == IF st.currentLine = << >> THEN w
                         ELSE st.currentLine \o << 32 >> \o w
         IN  IF Exceeds(Measure(advance, testLine), maxWidth) /\ st.currentLine # << >>
             THEN [lines |-> Append(st.lines, st.currentLine), currentLine |-> w]
             ELSE [lines |-> st.lines, currentLine |-> testLine]

\* the word loop of WrapParagraph; ' ' and '\t' end a word
RECURSIVE WordLoop(_, _, _, _, _, _)
WordLoop(advance, maxWidth, paragraph, i, word, st) ==
    IF i >= Len(paragraph) THEN PushWord(advance, maxWidth, st, word)
    ELSE IF paragraph[i + 1] = 32 \/ paragraph[i + 1] = 9
    THEN WordLoop(advance, maxWidth, paragraph, i + 1, << >>,
                  PushWord(advance, maxWidth, st, word))
    ELSE LET next == NextCharPos(paragraph, i)
         IN  WordLoop(advance, maxWidth, paragraph, next,
                      word \o Substr(paragraph, i, next - i), st)

\* WrapParagraph(paragraph, maxWidth, wrapMode, measureFunc)
WrapParagraph(paragraph, maxWidth, mode, advance) ==
    IF paragraph = << >> THEN << << >> >>
    ELSE LET st == IF mode = "Char"
                   THEN CharLoop(advance, maxWidth, paragraph, 0, << >>, << >>)
                   ELSE WordLoop(advance, maxWidth, paragraph, 0, << >>,
                                 [lines |-> << >>, currentLine |-> << >>])
         IN  IF st.currentLine # << >> THEN Append(st.lines, st.currentLine)
             ELSE st.lines

\* the paragraph loop of WrapTextLines over the bytes from position k on
RECURSIVE ParagraphLoop(_, _, _, _, _, _, _)
ParagraphLoop(text, k, currentParagraph, lines, maxWidth, mode, advance) ==
    IF k > Len(text)
    THEN IF currentParagraph # << >>
         THEN lines \o WrapParagraph(currentParagraph, maxWidth, mode, advance)
         ELSE lines
    ELSE IF text[k] = 10
    THEN ParagraphLoop(text, k + 1, << >>,
                       (IF currentParagraph # << >>
                        THEN lines \o WrapParagraph(currentParagraph, maxWidth, mode, advance)
                        ELSE lines) \o << << >> >>,
                       maxWidth, mode, advance)
    ELSE ParagraphLoop(text, k + 1, Append(currentParagraph, text[k]), lines,
                       maxWidth, mode, advance)

\* a WrapTextLines that passes the text through for mode NONE only
WrapTextLinesModeOnly(text, maxWidth, mode, advance) ==
    IF mode = "NONE" THEN << text >>
    ELSE ParagraphLoop(text, 1, << >>, << >>, maxWidth, mode, advance)

\* WrapTextLines(text, maxWidth, wrapMode, measureFunc)
WrapTextLines(text, maxWidth, mode, advance) ==
    IF mode = "NONE" \/ maxWidth <= 0 THEN << text >>
    ELSE ParagraphLoop(text, 1, << >>, << >>, maxWidth, mode, advance)

WrapStart ==
    /\ wrapText \in WrapTexts
    /\ wrapMaxWidth \in WrapWidths
    /\ wrapMode \in WrapModes
    /\ wrapAdvance \in WrapMeasures
    /\ wrapCall = [op |-> "init"]

WrapIdle ==
    /\ wrapText = << >>
    /\ wrapMaxWidth = 0
    /\ wrapMode = "NONE"
    /\ wrapAdvance = [b \in WrapBytes |-> 0]
    /\ wrapCall = [op |-> "init"]

\* a caller wraps the text
WrapTextLinesCall ==
    /\ wrapCall.op = "init"
    /\ wrapCall' = [op |-> "WrapTextLines",
                    lines |-> WrapTextLines(wrapText, wrapMaxWidth, wrapMode, wrapAdvance)]
    /\ UNCHANGED <<wrapText, wrapMaxWidth, wrapMode, wrapAdvance>>

\* the loop of GetTailThatFits over the suffix lengths i + 1
RECURSIVE TailLoop(_, _, _, _)
TailLoop(text, maxWidth, advance, i) ==
    IF i >= Len(text) THEN [tail |-> text, outWidth |-> Measure(advance, text)]
    ELSE LET substr == SubSeq(text, Len(text) - i, Len(text))
             width == Measure(advance, substr)
         IN  IF width <= maxWidth
             THEN IF i = Len(text) - 1 THEN [tail |-> substr, outWidth |-> width]
                  ELSE TailLoop(text, maxWidth, advance, i + 1)
             ELSE IF i > 0
             THEN [tail |-> SubSeq(text, Len(text) - i + 1, Len(text)),
                   outWidth |-> Measure(advance,
                                        SubSeq(text, Len(text) - i + 1, Len(text)))]
             ELSE [tail |-> << >>, outWidth |-> 0]

\* GetTailThatFits(text, maxWidth, measureFunc, outWidth)
GetTailThatFits(text, maxWidth, advance) ==
    IF text = << >> \/ maxWidth <= 0 THEN [tail |-> << >>, outWidth |-> 0]
    ELSE TailLoop(text, maxWidth, advance, 0)

\* a caller asks for the tail of the text that fits
GetTailThatFitsCall ==
    /\ wrapCall.op = "init"
    /\ wrapCall' = [op |-> "GetTailThatFits",
                    tail |-> GetTailThatFits(wrapText, wrapMaxWidth, wrapAdvance).tail,
                    outWidth |-> GetTailThatFits(wrapText, wrapMaxWidth,
                                                 wrapAdvance).outWidth]
    /\ UNCHANGED <<wrapText, wrapMaxWidth, wrapMode, wrapAdvance>>

NextWrap == WrapTextLinesCall \/ GetTailThatFitsCall

(***************************************************************************)
(* FontManager: UTF-8 decoding and measureString                            *)
(***************************************************************************)
\* 'a', the lead bytes of a two- and a three-byte sequence, a continuation byte
MeasBytes == {97, 195, 226, 169}

MeasTexts == UNION {[1..n -> MeasBytes] : n \in 0..MaxTextLen}

MeasWidths == {0, 1, 2}

\* a face: the whole pixels of the advance of ASCII and of other glyphs and
\* of the kerning between two mapped glyphs (0: the face has no kerning), the
\* 1/64 pixels FreeType reports on top of them, and whether a non-ASCII code
\* point has a glyph, has none (index 0), or fails to load; and no face at all
MeasFonts ==
    [face : {TRUE}, ascii : {1, 2}, wide : {1, 3}, kern : {0, -1}, frac : {0, 32},
     wideGlyph : {"mapped", "unmapped", "loadFails"}]
    \cup {[face |-> FALSE, ascii |-> 0, wide |-> 0, kern |-> 0, frac |-> 0,
            wideGlyph |-> "mapped"]}

\* every lead byte is taken for a one-byte sequence
SequenceLengthOne(byte0) == IF byte0 < 248 THEN 1 ELSE 0

\* decodeUTF8: the length announced by the first byte, 0 if it is no lead byte
SequenceLength(byte0) ==
    IF byte0 < 128 THEN 1
    ELSE IF byte0 \div 32 = 6 THEN 2
    ELSE IF byte0 \div 16 = 14 THEN 3
    ELSE IF byte0 \div 8 = 30 THEN 4
    ELSE 0

\* a decodeUTF8 that keeps only four payload bits of a two-byte lead byte
DecodeUTF8Narrow(text) ==
    IF text = << >> THEN [len |-> 0, codepoint |-> 0]
    ELSE LET byte0 == text[1]
             n == SequenceLength(byte0)
         IN  IF n = 0 \/ Len(text) < n THEN [len |-> 0, codepoint |-> 0]
             ELSE IF n = 1 THEN [len |-> 1, codepoint |-> byte0]
             ELSE IF n = 2
             THEN [len |-> 2, codepoint |-> (byte0 % 16) * 64 + (text[2] % 64)]
             ELSE IF n = 3
             THEN [len |-> 3,
                   codepoint |-> (byte0 % 16) * 4096 + (text[2] % 64) * 64 + (text[3] % 64)]
             ELSE [len |-> 4,
                   codepoint |-> (byte0 % 8) * 262144 + (text[2] % 64) * 4096
                                 + (text[3] % 64) * 64 + (text[4] % 64)]

\* decodeUTF8(text, outCodepoint): [len, codepoint], len 0 on failure
DecodeUTF8(text) ==
    IF text = << >> THEN [len |-> 0, codepoint |-> 0]
    ELSE LET byte0 == text[1]
             n == SequenceLength(byte0)
         IN  IF n = 0 \/ Len(text) < n THEN [len |-> 0, codepoint |-> 0]
             ELSE IF n = 1 THEN [len |-> 1, codepoint |-> byte0]
             ELSE IF n = 2
             THEN [len |-> 2, codepoint |-> (byte0 % 32) * 64 + (text[2] % 64)]
             ELSE IF n = 3
             THEN [len |-> 3,
                   codepoint |-> (byte0 % 16) * 4096 + (text[2] % 64) * 64 + (text[3] % 64)]
             ELSE [len |-> 4,
                   codepoint |-> (byte0 % 8) * 262144 + (text[2] % 64) * 4096
                                 + (text[3] % 64) * 64 + (text[4] % 64)]

\* FT_Get_Char_Index
GlyphIndexOf(font, codepoint) ==
    IF codepoint < 128 THEN 1 ELSE IF font.wideGlyph = "unmapped" THEN 0 ELSE 2

\* FT_Load_Glyph(...) == 0
GlyphLoads(font, codepoint) == ~(codepoint >= 128 /\ font.wideGlyph = "loadFails")

\* glyph->advance.x, in 1/64 pixel
AdvanceX(font, codepoint) ==
    (IF codepoint < 128 THEN font.ascii ELSE font.wide) * 64 + font.frac

\* delta.x of FT_Get_Kerning, in 1/64 pixel
KerningX(font) == font.kern * 64 + font.frac

\* x >> 6 on a signed value
ShiftRight6(x) == x \div 64

\* glyph->advance.x >> 6
GlyphAdvance(font, codepoint) == ShiftRight6(AdvanceX(font, codepoint))

\* the while loop of measureString
RECURSIVE MeasureLoop(_, _, _, _, _, _)
MeasureLoop(font, text, maxWidth, bytePos, totalWidth, prevGlyphIndex) ==
    IF bytePos >= Len(text) THEN [width |-> totalWidth, consumed |-> bytePos]
    ELSE LET d == DecodeUTF8(SubSeq(text, bytePos + 1, Len(text)))
             glyphIndex == GlyphIndexOf(font, d.codepoint)
             kerned == IF font.kern # 0 /\ prevGlyphIndex # 0 /\ glyphIndex # 0
                       THEN totalWidth + ShiftRight6(KerningX(font)) ELSE totalWidth
             advance == GlyphAdvance(font, d.codepoint)
         IN  IF d.len = 0 THEN [width |-> totalWidth, consumed |-> bytePos]
             ELSE IF GlyphLoads(font, d.codepoint)
             THEN IF maxWidth > 0 /\ kerned + advance > maxWidth
                  THEN [width |-> kerned, consumed |-> bytePos]
                  ELSE MeasureLoop(font, text, maxWidth, bytePos + d.len,
                                   kerned + advance, glyphIndex)
             ELSE MeasureLoop(font, text, maxWidth, bytePos + d.len, kerned, glyphIndex)

\* measureString(text, textLen, maxWidth, outMeasuredLength)
MeasureString(font, text, maxWidth) ==
    IF ~font.face \/ text = << >> THEN [width |-> 0, consumed |-> 0]
    ELSE MeasureLoop(font, text, maxWidth, 0, 0, 0)

MeasStart ==
    /\ measText \in MeasTexts
    /\ measMaxWidth \in MeasWidths
    /\ measFont \in MeasFonts
    /\ measPos = 0
    /\ measCovered = << >>
    /\ measCall = [op |-> "init"]

MeasIdle ==
    /\ measText = << >>
    /\ measMaxWidth = 0
    /\ measFont = [face |-> FALSE, ascii |-> 0, wide |-> 0, kern |-> 0, frac |-> 0,
                   wideGlyph |-> "mapped"]
    /\ measPos = 0
    /\ measCovered = << >>
    /\ measCall = [op |-> "init"]

\* the caller measures the rest of the text, from the offset the last call
\* returned
MeasureStringCall ==
    /\ measPos < Len(measText)
    /\ LET rest == SubSeq(measText, measPos + 1, Len(measText))
           r == MeasureString(measFont, rest, measMaxWidth)
       IN  /\ measPos' = measPos + r.consumed
           /\ measCovered' = measCovered \o SubSeq(rest, 1, r.consumed)
           /\ measCall' = [op |-> "measureString", from |-> measPos,
                           consumed |-> r.consumed, width |-> r.width]
    /\ UNCHANGED <<measText, measMaxWidth, measFont>>

NextMeas == MeasureStringCall

(***************************************************************************)
(* FontManager::decodeUTF8 called on its own                                *)
(***************************************************************************)
\* code points at the ends and inside of the one- to four-byte ranges
DecodeCodepoints ==
    {0, 1, 65, 127,
     128, 169, 233, 1023, 2047,
     2048, 4095, 4096, 8364, 40959, 55295, 57344, 65533, 65535,
     65536, 66000, 128512, 262143, 262144, 1048575, 1048576, 1114111}

\* the standard UTF-8 encoding of a code point
EncodeUTF8(cp) ==
    IF cp < 128 THEN <<cp>>
    ELSE IF cp < 2048 THEN <<192 + (cp \div 64), 128 + (cp % 64)>>
    ELSE IF cp < 65536
    THEN <<224 + (cp \div 4096), 128 + ((cp \div 64) % 64), 128 + (cp % 64)>>
    ELSE <<240 + (cp \div 262144), 128 + ((cp \div 4096) % 64),
           128 + ((cp \div 64) % 64), 128 + (cp % 64)>>

\* the strings offered to decodeUTF8: the encodings, the encodings followed
\* by one more character, and every string cut out of their front
DecodeTexts ==
    UNION {{SubSeq(EncodeUTF8(cp) \o <<97>>, 1, keep) :
                keep \in 0..(Len(EncodeUTF8(cp)) + 1)} : cp \in DecodeCodepoints}

DecStart ==
    /\ decText \in DecodeTexts
    /\ decCall = [op |-> "init"]

DecIdle ==
    /\ decText = << >>
    /\ decCall = [op |-> "init"]

\* decodeUTF8(text, outCodepoint)
DecodeUTF8Call ==
    /\ decCall.op = "init"
    /\ LET d == DecodeUTF8(decText)
       IN  decCall' = [op |-> "decodeUTF8", len |-> d.len, codepoint |-> d.codepoint]
    /\ UNCHANGED decText

NextDec == DecodeUTF8Call

(***************************************************************************)
(* IconManager: the cache key getTextureInfo computes for a request         *)
(***************************************************************************)
\* requested sizes: below, on and just above every ladder value, and beyond
KeySizes ==
    {-1, 0, 1, 15, 16, 17, 23, 24, 25, 31, 32, 33, 47, 48, 49, 63, 64, 65,
     95, 96, 97, 127, 128, 129, 200}

KeyStart ==
    /\ keySizeA \in KeySizes
    /\ keySizeB \in KeySizes
    /\ keyCall = [op |-> "init"]

KeyIdle ==
    /\ keySizeA = 0
    /\ keySizeB = 0
    /\ keyCall = [op |-> "init"]

\* the first statements of two getTextureInfo calls for one font and code
\* point: quantizedSize and cacheKey of each
KeyOfRequests ==
    /\ keyCall.op = "init"
    /\ \E fontName \in IconFonts, codepoint \in IconCodepoints :
          keyCall' = [op |-> "getTextureInfo",
                      quantizedA |-> QuantizeSize(keySizeA),
                      quantizedB |-> QuantizeSize(keySizeB),
                      cacheKeyA |-> CacheKey(fontName, codepoint, keySizeA),
                      cacheKeyB |-> CacheKey(fontName, codepoint, keySizeB)]
    /\ UNCHANGED <<keySizeA, keySizeB>>

NextKey == KeyOfRequests

(***************************************************************************)
(* TextRenderHelper::prepareTextRender over FontAtlasManager::getOrAddGlyph *)
(***************************************************************************)
\* ' ', 'a' and 'b'
PrepBytes == {32, 97, 98}

PrepTexts == UNION {[1..n -> PrepBytes] : n \in 0..MaxTextLen}

\* a font: whether font and atlas are loaded, the advances of a letter and
\* of the space, and whether FreeType can load the letters
PrepFaces ==
    [loaded : BOOLEAN, letterAdvance : {1, 2}, spaceAdvance : {1, 2},
     letterLoads : BOOLEAN]

\* FontManager::renderGlyph(codepoint): the space has an advance and no
\* pixels; a glyph that fails to load gives the default GlyphInfo
PrepRenderGlyph(face, codepoint) ==
    IF codepoint = 32
    THEN [bitmapEmpty |-> TRUE, width |-> 0, height |-> 0,
          advanceX |-> face.spaceAdvance]
    ELSE IF face.letterLoads
    THEN [bitmapEmpty |-> FALSE, width |-> 1, height |-> 1,
          advanceX |-> face.letterAdvance]
    ELSE [bitmapEmpty |-> TRUE, width |-> 0, height |-> 0, advanceX |-> 0]

\* the atlas loadFont creates: TextureAtlas(device, 2048, 2), scaled down to
\* the smallest atlas with a padding of one pixel
PrepNewAtlas ==
    [size |-> MinOf(AtlasSizes), padding |-> 1, shelves |-> << >>, shelfY |-> 0,
     glyphMap |-> << >>]

\* TextureAtlas::addGlyph on the atlas of the font atlas manager:
\* [has, glyph, atlas]
AtlasAddGlyph(atlas, codepoint, width, height, advanceX, texOk) ==
    LET a1 == Allocate(atlas.shelves, atlas.shelfY, atlas.size, atlas.padding,
                       width, height)
        ex == IF a1.ok
              THEN [ok |-> FALSE, size |-> atlas.size, shelves |-> a1.shelves,
                    shelfY |-> a1.shelfY, glyphMap |-> atlas.glyphMap]
              ELSE Expand(atlas.size, atlas.shelves, atlas.shelfY, atlas.glyphMap,
                          texOk)
        a2 == IF a1.ok THEN a1
              ELSE IF ex.ok
              THEN Allocate(ex.shelves, ex.shelfY, ex.size, atlas.padding,
                            width, height)
              ELSE [ok |-> FALSE, x |-> 0, y |-> 0, shelves |-> ex.shelves,
                    shelfY |-> ex.shelfY]
        uploaded == a2.ok /\ UploadBitmap(width, height)
        glyph == [advanceX |-> advanceX]
                 @@ MakeAtlasGlyph(a2.x, a2.y, width, height, ex.size)
    IN  IF codepoint \in DOMAIN atlas.glyphMap
        THEN [has |-> TRUE, glyph |-> atlas.glyphMap[codepoint], atlas |-> atlas]
        ELSE [has |-> uploaded, glyph |-> glyph,
              atlas |-> [size |-> ex.size, padding |-> atlas.padding,
                         shelves |-> a2.shelves, shelfY |-> a2.shelfY,
                         glyphMap |->
                             IF uploaded
                             THEN [c \in DOMAIN ex.glyphMap \cup {codepoint} |->
                                      IF c = codepoint THEN glyph ELSE ex.glyphMap[c]]
                             ELSE ex.glyphMap]]

\* getOrAddGlyph(codepoint): [has, glyph, atlas]; texOk is the outcome of
\* creating the texture of an expanded atlas
GetOrAddGlyph(face, atlas, codepoint, texOk) ==
    LET glyph == PrepRenderGlyph(face, codepoint)
    IN  IF ~face.loaded THEN [has |-> FALSE, glyph |-> NoGlyph, atlas |-> atlas]
        ELSE IF codepoint \in DOMAIN atlas.glyphMap
        THEN [has |-> TRUE, glyph |-> atlas.glyphMap[codepoint], atlas |-> atlas]
        ELSE IF glyph.bitmapEmpty
        THEN [has |-> FALSE, glyph |-> NoGlyph, atlas |-> atlas]
        ELSE AtlasAddGlyph(atlas, codepoint, glyph.width, glyph.height,
                           glyph.advanceX, texOk)

\* the six vertices of one glyph: its code point and the UVs they carry
GlyphQuad(codepoint, glyph) ==
    [codepoint |-> codepoint, u0 |-> glyph.u0, v0 |-> glyph.v0,
     u1 |-> glyph.u1, v1 |-> glyph.v1]

\* the while loop of prepareTextRender: [cursorX, vertices, atlas], the pen
\* measured from the start x
RECURSIVE PrepareLoop(_, _, _, _, _, _, _)
PrepareLoop(face, atlas, text, bytePos, cursorX, vertices, texOk) ==
    IF bytePos >= Len(text)
    THEN [cursorX |-> cursorX, vertices |-> vertices, atlas |-> atlas]
    ELSE LET d == DecodeUTF8(SubSeq(text, bytePos + 1, Len(text)))
         IN  IF d.len = 0
             THEN [cursorX |-> cursorX, vertices |-> vertices, atlas |-> atlas]
             ELSE \* g: what the one call of getOrAddGlyph for this glyph returned
                  CHOOSE r \in
                      {IF ~g.has
                       THEN PrepareLoop(face, g.atlas, text, bytePos + d.len, cursorX,
                                        vertices, texOk)
                       ELSE PrepareLoop(face, g.atlas, text, bytePos + d.len,
                                        cursorX + g.glyph.advanceX,
                                        IF g.glyph.width > 0 /\ g.glyph.height > 0
                                        THEN Append(vertices,
                                                    GlyphQuad(d.codepoint, g.glyph))
                                        ELSE vertices,
                                        texOk) :
                          g \in {GetOrAddGlyph(face, atlas, d.codepoint, texOk)}} : TRUE

\* prepareTextRender(text, x, y, color): [width, vertices, atlas]
PrepareTextRender(face, atlas, text, texOk) ==
    IF ~face.loaded \/ text = << >>
    THEN [width |-> 0, vertices |-> << >>, atlas |-> atlas]
    ELSE LET r == PrepareLoop(face, atlas, text, 0, 0, << >>, texOk)
         IN  [width |-> r.cursorX, vertices |-> r.vertices, atlas |-> r.atlas]

PrepStart ==
    /\ prepText \in PrepTexts
    /\ prepFace \in PrepFaces
    /\ prepAtlas = PrepNewAtlas
    /\ prepCall = [op |-> "init", nth |-> 0]

PrepIdle ==
    /\ prepText = << >>
    /\ prepFace = [loaded |-> FALSE, letterAdvance |-> 1, spaceAdvance |-> 1,
                   letterLoads |-> FALSE]
    /\ prepAtlas = PrepNewAtlas
    /\ prepCall = [op |-> "init", nth |-> 0]

\* a caller prepares the text, at most twice (the second time the atlas may
\* hold its glyphs)
PrepareTextRenderCall ==
    /\ prepCall.nth < 2
    /\ \E texOk \in BOOLEAN :
          \E r \in {PrepareTextRender(prepFace, prepAtlas, prepText, texOk)} :
              /\ prepAtlas' = r.atlas
              /\ prepCall' = [op |-> "prepareTextRender", width |-> r.width,
                              vertices |-> r.vertices, nth |-> prepCall.nth + 1]
    /\ UNCHANGED <<prepText, prepFace>>

NextPrep == PrepareTextRenderCall

(***************************************************************************)
(* FontManager: renderGlyph, renderTextBitmap and the active pixel size     *)
(***************************************************************************)
\* font sizes in tenths of a pixel; 0 asks for the default size
FontSizeArgs == {0, 120, 125, 200}

LoadSizes == {120, 200}

FontCodepoints == {65}

\* "", "A", "AA" and a lone lead byte that decodeUTF8 rejects
FontTexts == {<< >>, <<65>>, <<65, 65>>, <<195>>}

\* what FreeType does with a glyph: [ft, advance]
GlyphOutcomes ==
    {[ft |-> "loadFail", advance |-> 0], [ft |-> "renderFail", advance |-> 0],
     [ft |-> "ok", advance |-> 0], [ft |-> "ok", advance |-> 1]}

Abs(x) == IF x < 0 THEN 0 - x ELSE x

\* the rasterizer state that a call reads and writes
FontState == [fontSize |-> m_fontSize, pixel |-> ftPixelSize, cache |-> m_glyphCache]

\* static_cast<FT_UInt>(size) of a size in tenths of a pixel
PixelsOf(size) == size \div 10

\* FT_Set_Pixel_Sizes(m_ftFace, 0, pixels) == 0
FtSetPixelSizesOk(st, pixels) == ftScalable \/ pixels = st.pixel

\* setPixelSize(size)
SetPixelSize(st, size) ==
    IF ~m_ftFace \/ size <= 0 THEN st
    ELSE IF FtSetPixelSizesOk(st, PixelsOf(size))
    THEN [st EXCEPT !.fontSize = size, !.pixel = PixelsOf(size)]
    ELSE st

\* makeGlyphCacheKey(codepoint, fontSize): <<uint32(fontSize * 10), codepoint>>
MakeGlyphCacheKey(codepoint, fontSize) == <<fontSize, codepoint>>

\* a renderGlyph that rasterizes without looking into the cache
RenderGlyphUncached(st, codepoint, fontSize, out) ==
    LET targetSize == IF fontSize > 0 THEN fontSize ELSE st.fontSize
        cacheKey == MakeGlyphCacheKey(codepoint, targetSize)
        needRestore == Abs(targetSize - st.fontSize) > 1
        oldSize == st.fontSize
        sized == IF needRestore THEN SetPixelSize(st, targetSize) ELSE st
        restored == IF needRestore THEN SetPixelSize(sized, oldSize) ELSE sized
    IN  IF ~m_ftFace THEN [st |-> st, advanceX |-> 0, path |-> "noFace"]
        ELSE IF out.ft # "ok"
        THEN [st |-> sized, advanceX |-> 0, path |-> out.ft]
        ELSE [st |-> [restored EXCEPT !.cache =
                         [k \in DOMAIN restored.cache \cup {cacheKey} |->
                             IF k = cacheKey THEN out.advance ELSE restored.cache[k]]],
              advanceX |-> out.advance, path |-> "rendered"]

\* renderGlyph(codepoint, fontSize) on state st: [st, advanceX, path]
RenderGlyph(st, codepoint, fontSize, out) ==
    LET targetSize == IF fontSize > 0 THEN fontSize ELSE st.fontSize
        cacheKey == MakeGlyphCacheKey(codepoint, targetSize)
        needRestore == Abs(targetSize - st.fontSize) > 1
        oldSize == st.fontSize
        sized == IF needRestore THEN SetPixelSize(st, targetSize) ELSE st
        restored == IF needRestore THEN SetPixelSize(sized, oldSize) ELSE sized
    IN  IF ~m_ftFace THEN [st |-> st, advanceX |-> 0, path |-> "noFace"]
        ELSE IF cacheKey \in DOMAIN st.cache
        THEN [st |-> st, advanceX |-> st.cache[cacheKey], path |-> "cached"]
        ELSE IF out.ft # "ok"
        THEN [st |-> sized, advanceX |-> 0, path |-> out.ft]
        ELSE [st |-> [restored EXCEPT !.cache =
                         [k \in DOMAIN restored.cache \cup {cacheKey} |->
                             IF k = cacheKey THEN out.advance ELSE restored.cache[k]]],
              advanceX |-> out.advance, path |-> "rendered"]

\* the layout loop of renderTextBitmap: [st, cursorX, count]
RECURSIVE LayoutLoop(_, _, _, _, _, _, _)
LayoutLoop(st, text, bytePos, targetSize, outs, cursorX, count) ==
    LET d == DecodeUTF8(SubSeq(text, bytePos + 1, Len(text)))
    IN  IF bytePos >= Len(text) \/ d.len = 0
        THEN [st |-> st, cursorX |-> cursorX, count |-> count]
        ELSE LET g == RenderGlyph(st, d.codepoint, targetSize, outs[count + 1])
             IN  LayoutLoop(g.st, text, bytePos + d.len, targetSize, outs,
                            cursorX + g.advanceX, count + 1)

\* getFontHeight(): metrics.height >> 6 of the sized face
GetFontHeight(st) == IF ~m_ftFace THEN 0 ELSE st.pixel

\* renderTextBitmap(text, r, g, b, a, outWidth, outHeight, fontSize): [st, path]
RenderTextBitmap(st, text, fontSize, outs) ==
    LET targetSize == IF fontSize > 0 THEN fontSize ELSE st.fontSize
        needRestore == Abs(targetSize - st.fontSize) > 1
        oldSize == st.fontSize
        sized == IF needRestore THEN SetPixelSize(st, targetSize) ELSE st
        laid == LayoutLoop(sized, text, 0, targetSize, outs, 0, 0)
        outWidth == laid.cursorX
        outHeight == GetFontHeight(laid.st)
    IN  IF ~m_loaded \/ text = << >> THEN [st |-> st, path |-> "nothing"]
        ELSE IF laid.count = 0
        THEN [st |-> IF needRestore THEN SetPixelSize(laid.st, oldSize) ELSE laid.st,
              path |-> "noLayout"]
        ELSE IF outWidth <= 0 \/ outHeight <= 0
        THEN [st |-> laid.st, path |-> "emptyBitmap"]
        ELSE [st |-> IF needRestore THEN SetPixelSize(laid.st, oldSize) ELSE laid.st,
              path |-> "rendered"]

FontStart ==
    /\ m_loaded = FALSE
    /\ m_ftFace = FALSE
    /\ m_fontSize = 160
    /\ ftPixelSize = 0
    /\ ftScalable = FALSE
    /\ m_glyphCache = << >>
    /\ ftFontData = 0
    /\ glyphFont = << >>
    /\ fontCall = [op |-> "init"]

FontStore(st) ==
    /\ m_fontSize' = st.fontSize
    /\ ftPixelSize' = st.pixel
    /\ m_glyphCache' = st.cache
    /\ glyphFont' = [k \in DOMAIN st.cache |->
                        IF k \in DOMAIN m_glyphCache THEN glyphFont[k] ELSE ftFontData]

\* the font files an application loads, in the order it loads them
FontDatas == {1, 2}

\* loadFromMemory(fontData, dataSize, fontSize): the k-th call that creates a
\* face brings the k-th font data.  FT_New_Memory_Face leaves m_ftFace as it
\* was when it fails; a failing FT_Set_Pixel_Sizes drops the new face;
\* m_loaded is only ever set.
LoadFromMemory(fontSize, scalable, faceOk, sizeOk) ==
    /\ ftFontData + 1 \in FontDatas
    /\ m_ftFace' = IF faceOk THEN sizeOk ELSE m_ftFace
    /\ m_loaded' = (m_loaded \/ (faceOk /\ sizeOk))
    /\ ftScalable' = IF faceOk THEN (sizeOk /\ scalable) ELSE ftScalable
    /\ m_fontSize' = IF faceOk /\ sizeOk THEN fontSize ELSE m_fontSize
    /\ ftPixelSize' = IF faceOk THEN (IF sizeOk THEN PixelsOf(fontSize) ELSE 0)
                      ELSE ftPixelSize
    /\ ftFontData' = IF faceOk THEN ftFontData + 1 ELSE ftFontData
    /\ fontCall' = [op |-> "loadFromMemory", path |-> IF faceOk /\ sizeOk THEN "loaded"
                                                     ELSE "failed"]
    /\ UNCHANGED <<m_glyphCache, glyphFont>>

FontLoadFromMemory ==
    \E fontSize \in LoadSizes, scalable \in BOOLEAN, faceOk \in BOOLEAN, sizeOk \in BOOLEAN :
        LoadFromMemory(fontSize, scalable, faceOk, sizeOk)

FontRenderGlyph ==
    \E codepoint \in FontCodepoints, fontSize \in FontSizeArgs, out \in GlyphOutcomes :
        LET r == RenderGlyph(FontState, codepoint, fontSize, out)
        IN  /\ FontStore(r.st)
            /\ fontCall' = [op |-> "renderGlyph", path |-> r.path, fontSize |-> fontSize,
                            oldSize |-> m_fontSize, oldPixel |-> ftPixelSize,
                            codepoint |-> codepoint, advanceX |-> r.advanceX,
                            from |-> IF r.path = "cached"
                                     THEN glyphFont[MakeGlyphCacheKey(codepoint,
                                              IF fontSize > 0 THEN fontSize
                                              ELSE m_fontSize)]
                                     ELSE ftFontData]
            /\ UNCHANGED <<m_loaded, m_ftFace, ftScalable, ftFontData>>

FontRenderTextBitmap ==
    \E text \in FontTexts, fontSize \in FontSizeArgs :
      \E outs \in [1..Len(text) -> GlyphOutcomes] :
        LET r == RenderTextBitmap(FontState, text, fontSize, outs)
        IN  /\ FontStore(r.st)
            /\ fontCall' = [op |-> "renderTextBitmap", path |-> r.path,
                            fontSize |-> fontSize,
                            oldSize |-> m_fontSize, oldPixel |-> ftPixelSize]
            /\ UNCHANGED <<m_loaded, m_ftFace, ftScalable, ftFontData>>

\* clearCache()
FontClearCache ==
    /\ m_glyphCache' = << >>
    /\ glyphFont' = << >>
    /\ fontCall' = [op |-> "clearCache"]
    /\ UNCHANGED <<m_loaded, m_ftFace, m_fontSize, ftPixelSize, ftScalable, ftFontData>>

NextFont ==
    \/ FontLoadFromMemory
    \/ FontRenderGlyph
    \/ FontRenderTextBitmap
    \/ FontClearCache

(***************************************************************************)
(* Specifications, one per component                                       *)
(***************************************************************************)
InitAtlas == AtlasStart /\ IconIdle /\ DevStart /\ CbIdle /\ WrapIdle /\ MeasIdle /\ FontStart /\ DecIdle /\ KeyIdle /\ PrepIdle

NextAtlas == (AtlasAddGlyphStep \/ AtlasClear) /\ UNCHANGED <<iconVars, devVars, cbVars, wrapVars, measVars, fontVars, decVars, keyVars, prepVars>>

SpecAtlas == InitAtlas /\ [][NextAtlas]_vars

InitIcon == IconStart /\ AtlasIdle /\ DevStart /\ CbIdle /\ WrapIdle /\ MeasIdle /\ FontStart /\ DecIdle /\ KeyIdle /\ PrepIdle

NextIconManager == NextIcon /\ UNCHANGED <<atlasVars, devVars, cbVars, wrapVars, measVars, fontVars, decVars, keyVars, prepVars>>

SpecIcon == InitIcon /\ [][NextIconManager]_vars

InitDevice == DevStart /\ AtlasIdle /\ IconIdle /\ CbIdle /\ WrapIdle /\ MeasIdle /\ FontStart /\ DecIdle /\ KeyIdle /\ PrepIdle

NextDevice == NextDev /\ UNCHANGED <<atlasVars, iconVars, cbVars, wrapVars, measVars, fontVars, decVars, keyVars, prepVars>>

SpecDevice == InitDevice /\ [][NextDevice]_vars

InitCommandBuffer == CbStart /\ AtlasIdle /\ IconIdle /\ DevStart /\ WrapIdle /\ MeasIdle /\ FontStart /\ DecIdle /\ KeyIdle /\ PrepIdle

NextCommandBuffer == NextCb /\ UNCHANGED <<atlasVars, iconVars, devVars, wrapVars, measVars, fontVars, decVars, keyVars, prepVars>>

SpecCommandBuffer == InitCommandBuffer /\ [][NextCommandBuffer]_vars

InitTextUtils == WrapStart /\ AtlasIdle /\ IconIdle /\ DevStart /\ CbIdle /\ MeasIdle /\ FontStart /\ DecIdle /\ KeyIdle /\ PrepIdle

NextTextUtils == NextWrap /\ UNCHANGED <<atlasVars, iconVars, devVars, cbVars, measVars, fontVars, decVars, keyVars, prepVars>>

SpecTextUtils == InitTextUtils /\ [][NextTextUtils]_vars

InitMeasure == MeasStart /\ AtlasIdle /\ IconIdle /\ DevStart /\ CbIdle /\ WrapIdle /\ FontStart /\ DecIdle /\ KeyIdle /\ PrepIdle

NextMeasure == NextMeas /\ UNCHANGED <<atlasVars, iconVars, devVars, cbVars, wrapVars, fontVars, decVars, keyVars, prepVars>>

SpecMeasure == InitMeasure /\ [][NextMeasure]_vars

InitFont == FontStart /\ AtlasIdle /\ IconIdle /\ DevStart /\ CbIdle /\ WrapIdle /\ MeasIdle /\ DecIdle /\ KeyIdle /\ PrepIdle

NextFontManager ==
    NextFont /\ UNCHANGED <<atlasVars, iconVars, devVars, cbVars, wrapVars, measVars, decVars, keyVars, prepVars>>

SpecFont == InitFont /\ [][NextFontManager]_vars

InitDecode == DecStart /\ AtlasIdle /\ IconIdle /\ DevStart /\ CbIdle /\ WrapIdle /\ MeasIdle /\ FontStart /\ KeyIdle /\ PrepIdle

NextDecode ==
    NextDec /\ UNCHANGED <<atlasVars, iconVars, devVars, cbVars, wrapVars, measVars, fontVars, keyVars, prepVars>>

SpecDecode == InitDecode /\ [][NextDecode]_vars

InitKey == KeyStart /\ AtlasIdle /\ IconIdle /\ DevStart /\ CbIdle /\ WrapIdle /\ MeasIdle /\ FontStart /\ DecIdle /\ PrepIdle

NextKeyOfRequests ==
    NextKey /\ UNCHANGED <<atlasVars, iconVars, devVars, cbVars, wrapVars, measVars, fontVars, decVars, prepVars>>

SpecKey == InitKey /\ [][NextKeyOfRequests]_vars

InitPrepare == PrepStart /\ AtlasIdle /\ IconIdle /\ DevStart /\ CbIdle /\ WrapIdle /\ MeasIdle /\ FontStart /\ DecIdle /\ KeyIdle

NextPrepare ==
    NextPrep /\ UNCHANGED <<atlasVars, iconVars, devVars, cbVars, wrapVars, measVars, fontVars, decVars, keyVars>>

SpecPrepare == InitPrepare /\ [][NextPrepare]_vars


\* C1: after any sequence of getTextureInfo calls (hits, successful and failed
\* misses) the font texture cache holds at most MAX_FONT_CACHE_SIZE entries, and
\* it never held more at any point inside a call (peak: the largest size between
\* the call's entry, its eviction and its insertion).
C1_CacheWithinCapacity ==
    /\ CacheSize(m_fontTextureCache) <= MAX_FONT_CACHE_SIZE
    /\ iconCall.op = "getTextureInfo" => iconCall.peak <= MAX_FONT_CACHE_SIZE

\* a miss at capacity evicted an entry and inserted the new one
C1_Witness ==
    /\ iconCall.op = "getTextureInfo"
    /\ iconCall.path = "inserted"
    /\ iconCall.evicted = 1
    /\ CacheSize(m_fontTextureCache) = MAX_FONT_CACHE_SIZE

\* the createDevice attempts of the last call, in the order they were made
DevCreates == SelectSeq(devCall.log, LAMBDA e : e[1] = "create")

\* the last claimWindow call failed to bind the window on the current backend
DevClaimFellBack == devCall.op = "claimWindow" /\ devCall.path = "fallback"

\* the device the failed claim ran on was destroyed before any createDevice
DevTornDownFirst ==
    \E k \in 1..Len(devCall.log) :
        /\ devCall.log[k] = <<"destroy", devCall.start>>
        /\ \A j \in 1..k : devCall.log[j][1] # "create"

\* only backends after the failing one are tried, in list order, each once;
\* the call ends on the first successful claim and fails only on exhaustion
DevFallbackOrder ==
    /\ \A k \in 1..Len(DevCreates) : DevCreates[k][2] = devCall.start + k
    /\ \A k \in 1..Len(devCall.log) :
          (devCall.log[k][1] = "claim" /\ devCall.log[k][3]) => k = Len(devCall.log)
    /\ \A k \in 1..Len(devCall.log) :
          (devCall.log[k][1] = "claim" /\ k > 1)
              => (devCall.log[k - 1] = <<"create", devCall.log[k][2], TRUE>>)
    /\ devCall.ret <=> (/\ devCall.log[Len(devCall.log)][1] = "claim"
                        /\ devCall.log[Len(devCall.log)][3])
    /\ ~devCall.ret => Len(DevCreates) = NumBackends - 1 - devCall.start

\* C3 as stated: whenever claimWindow fails to bind the window on the current
\* backend i it tears the current device down, then tries only the backends
\* after i, in order and once each, returning true on the first that creates a
\* device and claims the window and false exactly on exhaustion.
C3_Original == DevClaimFellBack => (DevTornDownFirst /\ DevFallbackOrder)

\* C3 amended: the teardown happens exactly when a later backend exists; when
\* i is the last backend the call returns false at once and keeps the device.
C3_FallbackOrder ==
    DevClaimFellBack =>
        /\ DevFallbackOrder
        /\ devCall.start < NumBackends - 1 => DevTornDownFirst
        /\ devCall.start = NumBackends - 1 =>
              (/\ Len(devCall.log) = 1
               /\ ~devCall.ret
               /\ m_gpuDevice = devCall.start)

\* the claim failed on the first backend, the second could not create a
\* device and the third created one and claimed the window
C3_Witness ==
    /\ DevClaimFellBack
    /\ devCall.start = 0
    /\ devCall.ret
    /\ Len(DevCreates) = 2
    /\ m_gpuDevice = 2
    /\ devCall.window \in m_claimedWindows

\* the pixel rectangle of a glyph together with its padding
PaddedDisjoint(g1, g2) ==
    \/ g1.x + g1.width + m_padding <= g2.x
    \/ g2.x + g2.width + m_padding <= g1.x
    \/ g1.y + g1.height + m_padding <= g2.y
    \/ g2.y + g2.height + m_padding <= g1.y

\* C2: in every reachable atlas state the padded pixel rectangles of the glyphs
\* in the glyph map are pairwise disjoint (no position is handed out twice
\* within one packing generation).
C2_PaddedRectsDisjoint ==
    \A c1 \in DOMAIN m_glyphMap : \A c2 \in DOMAIN m_glyphMap :
        c1 # c2 => PaddedDisjoint(m_glyphMap[c1], m_glyphMap[c2])

\* two glyphs share a shelf: the second was placed behind the first
C2_Witness ==
    /\ atlasCall.op = "addGlyph" /\ atlasCall.path = "packed"
    /\ \E c1 \in DOMAIN m_glyphMap : \E c2 \in DOMAIN m_glyphMap :
          /\ c1 # c2
          /\ m_glyphMap[c1].y = m_glyphMap[c2].y
          /\ m_glyphMap[c1].x < m_glyphMap[c2].x

\* a UV fraction <<n, d>> equals pixel / size
UvIs(uv, pixel, size) == uv[1] * size = pixel * uv[2]

\* C10: every AtlasGlyph in the glyph map has UVs equal to its pixel rectangle
\* divided by the current atlas size, and after an addGlyph that expanded the
\* atlas no glyph packed before the expansion is left in the map.
C10_UVsMatchCurrentSize ==
    /\ \A c \in DOMAIN m_glyphMap :
          LET g == m_glyphMap[c]
          IN  /\ UvIs(g.u0, g.x, m_size)
              /\ UvIs(g.v0, g.y, m_size)
              /\ UvIs(g.u1, g.x + g.width, m_size)
              /\ UvIs(g.v1, g.y + g.height, m_size)
    /\ (atlasCall.op = "addGlyph" /\ atlasCall.expanded)
          => DOMAIN m_glyphMap \subseteq {atlasCall.codepoint}

\* an addGlyph expanded an atlas that held a glyph and packed the new one
C10_Witness ==
    /\ atlasCall.op = "addGlyph" /\ atlasCall.expanded
    /\ atlasCall.path = "packed"
    /\ atlasCall.before # << >>
    /\ DOMAIN m_glyphMap = {atlasCall.codepoint}

\* the ring slots of a sequence of frames in flight
SlotsOf(frames) == {frames[k] : k \in 1..Len(frames)}

\* the last execute wrote (resized, or recorded an upload into) the buffers of
\* a slot that a frame still in flight at the call had used
CbHazard ==
    /\ cbCall.op = "execute"
    /\ cbCall.wrote
    /\ cbCall.slot \in SlotsOf(cbCall.pending)

\* C4 as stated: while never more than MAX_FRAMES_IN_FLIGHT submitted frames
\* await GPU completion, execute never resizes or uploads into the buffers of
\* a ring slot whose earlier frame is still in flight.
C4_Original ==
    (/\ cbCall.op = "execute"
     /\ Len(cbCall.pending) <= MAX_FRAMES_IN_FLIGHT
     /\ Len(inFlight) <= MAX_FRAMES_IN_FLIGHT) => ~CbHazard

\* C4 amended: when at most MAX_FRAMES_IN_FLIGHT - 1 submitted frames await
\* GPU completion at the moment execute is called, and the GPU completes
\* frames in submission order, execute never resizes or uploads into the
\* buffers of a ring slot whose earlier frame is still in flight.
C4_RingSlotFree ==
    (/\ cbCall.op = "execute"
     /\ Len(cbCall.pending) <= MAX_FRAMES_IN_FLIGHT - 1) => ~CbHazard

\* an execute that found one frame in flight, resized or uploaded, and submitted
C4_Witness ==
    /\ cbCall.op = "execute"
    /\ cbCall.path = "submitted"
    /\ Len(cbCall.pending) = MAX_FRAMES_IN_FLIGHT - 1
    /\ cbCall.wrote
    /\ Len(inFlight) = MAX_FRAMES_IN_FLIGHT

\* C5: every indexed draw that execute issues is given the vertex offset and
\* the first index at which the upload placed that batch's own vertices and
\* indices, for any list of batches.
C5_DrawsOwnData ==
    (cbCall.op = "execute" /\ cbCall.path = "submitted") => cbCall.misdrawn = {}

\* the number of empty entries among the first n lines
RECURSIVE EmptyLines(_, _)
EmptyLines(lines, n) ==
    IF n = 0 THEN 0
    ELSE EmptyLines(lines, n - 1) + (IF lines[n] = << >> THEN 1 ELSE 0)

\* the number of empty paragraphs of a text: the newline-separated pieces of
\* length zero, counted from the piece that starts at byte k
RECURSIVE EmptyParagraphs(_, _, _)
EmptyParagraphs(text, k, pieceLen) ==
    IF k > Len(text) THEN (IF pieceLen = 0 THEN 1 ELSE 0)
    ELSE IF text[k] = 10
    THEN (IF pieceLen = 0 THEN 1 ELSE 0) + EmptyParagraphs(text, k + 1, 0)
    ELSE EmptyParagraphs(text, k + 1, pieceLen + 1)

WrapWrapped ==
    /\ wrapCall.op = "WrapTextLines"
    /\ wrapMode \in {"Word", "Char"}
    /\ wrapMaxWidth > 0

\* C6: in Word or Char mode with maxWidth > 0 the output of WrapTextLines has
\* an empty entry only for a paragraph that is itself empty, so a newline
\* between two non-empty paragraphs adds no empty line.
C6_EmptyLineOnlyForEmptyParagraph ==
    WrapWrapped =>
        EmptyLines(wrapCall.lines, Len(wrapCall.lines)) <= EmptyParagraphs(wrapText, 1, 0)

\* a line of one code point (one step of NextCharPos)
IsSingleCodePoint(line) == line # << >> /\ NextCharPos(line, 0) = Len(line)

\* C7: in Word and Char mode with maxWidth > 0 every line that WrapTextLines
\* returns measures at most maxWidth or is a single code point that alone is
\* wider than maxWidth; a word wider than maxWidth is never emitted whole.
C7_LinesFit ==
    WrapWrapped =>
        \A n \in 1..Len(wrapCall.lines) :
            \/ Measure(wrapAdvance, wrapCall.lines[n]) <= wrapMaxWidth
            \/ IsSingleCodePoint(wrapCall.lines[n])

\* a word of three code points, wider than maxWidth, wrapped in Word mode
C7_Witness ==
    /\ WrapWrapped
    /\ wrapMode = "Word"
    /\ Len(wrapText) = MaxTextLen
    /\ \A k \in 1..Len(wrapText) : wrapText[k] = 97
    /\ Measure(wrapAdvance, wrapText) > wrapMaxWidth
    /\ Len(wrapCall.lines) >= 2

\* well-formed UTF-8 from byte position pos (0-based) on: every lead byte is
\* followed by exactly the continuation bytes it announces
RECURSIVE WellFormedFrom(_, _)
WellFormedFrom(text, pos) ==
    IF pos >= Len(text) THEN TRUE
    ELSE LET n == IF text[pos + 1] < 128 THEN 1
                  ELSE IF text[pos + 1] \in 194..223 THEN 2
                  ELSE IF text[pos + 1] \in 224..239 THEN 3
                  ELSE IF text[pos + 1] \in 240..244 THEN 4
                  ELSE 0
         IN  /\ n > 0
             /\ pos + n <= Len(text)
             /\ \A k \in (pos + 2)..(pos + n) : text[k] \in 128..191
             /\ WellFormedFrom(text, pos + n)

\* a byte offset at which a code point starts, or the end of the text
OnCodePointBoundary(text, pos) ==
    pos = Len(text) \/ (pos < Len(text) /\ IsUtf8StartByte(text[pos + 1]))

\* a call with maxWidth > 0 on well-formed text, with a face loaded
MeasMeasured ==
    /\ measCall.op = "measureString"
    /\ measFont.face
    /\ measMaxWidth > 0
    /\ WellFormedFrom(measText, 0)

\* the consumed length stays inside the text, ends on a code-point boundary,
\* and the chunks measured so far are the text up to the next offset
MeasChunksSound ==
    /\ measCall.from + measCall.consumed = measPos
    /\ measPos <= Len(measText)
    /\ OnCodePointBoundary(measText, measPos)
    /\ measCovered = SubSeq(measText, 1, measPos)

\* C8 as stated: for maxWidth > 0 and well-formed UTF-8 text the consumed
\* length is at most the text length and on a code-point boundary, the
\* chunks of repeated measuring are consecutive without loss or overlap, and
\* every call before the end of the text makes progress.
C8_Original ==
    MeasMeasured => (MeasChunksSound /\ measCall.consumed > 0)

\* the first code point of the text measured by the last call, and whether
\* it alone fits into maxWidth
MeasFirstFits ==
    LET d == DecodeUTF8(SubSeq(measText, measCall.from + 1, Len(measText)))
    IN  \/ ~GlyphLoads(measFont, d.codepoint)
        \/ GlyphAdvance(measFont, d.codepoint) <= measMaxWidth

\* C8 amended: for maxWidth > 0 and well-formed UTF-8 text the consumed
\* length is at most the text length and on a code-point boundary, and the
\* chunks of repeated measuring are consecutive without loss or overlap; a
\* call before the end of the text makes progress exactly when the advance
\* of its first code point alone does not exceed maxWidth (or that glyph
\* fails to load).
C8_ChunksCover ==
    MeasMeasured =>
        /\ MeasChunksSound
        /\ (measCall.consumed > 0) <=> MeasFirstFits

\* a text with a multi-byte code point measured to its end in two chunks
C8_Witness ==
    /\ MeasMeasured
    /\ measCall.from > 0
    /\ measCall.consumed > 0
    /\ measPos = Len(measText)
    /\ \E k \in 1..Len(measText) : measText[k] >= 128

\* C9: after renderGlyph(codepoint, size) or renderTextBitmap(..., size) with
\* a size different from the active one, on every path of the call, the
\* rasterizer's active pixel size is the same as before the call.
C9_PixelSizeRestored ==
    (/\ fontCall.op \in {"renderGlyph", "renderTextBitmap"}
     /\ fontCall.fontSize > 0
     /\ fontCall.fontSize # fontCall.oldSize)
        => (m_fontSize = fontCall.oldSize /\ ftPixelSize = fontCall.oldPixel)

\* C11: a getTextureInfo miss on a full cache with a GPU device removes
\* exactly one entry, and that entry has the minimum lastAccessTime of all
\* entries held when the call began.
C11_EvictsOldest ==
    (/\ iconCall.op = "getTextureInfo"
     /\ iconCall.path # "hit"
     /\ iconCall.held = MAX_FONT_CACHE_SIZE
     /\ iconDevice)
        => (iconCall.evicted = 1 /\ iconCall.removed = {iconCall.oldest})

\* a miss on a full cache whose entries differ in access time evicted one
C11_Witness ==
    /\ iconCall.op = "getTextureInfo"
    /\ iconCall.path = "inserted"
    /\ iconCall.held = MAX_FONT_CACHE_SIZE
    /\ iconCall.evicted = 1
    /\ iconCall.oldest < iconNow
    /\ \E k \in DOMAIN m_fontTextureCache :
          k # iconCall.key /\ m_fontTextureCache[k].lastAccessTime > iconCall.oldest

\* C12: a getTextureInfo call that finds its key in the cache creates no
\* texture, evicts nothing, leaves the set of keys and every other entry
\* unchanged, sets the entry's lastAccessTime and adds one to its accessCount.
C12_HitTouchesOnlyEntry ==
    [][\A k \in DOMAIN m_fontTextureCache :
          (iconCall'.op = "getTextureInfo" /\ iconCall'.key = k)
            => /\ iconCall'.path = "hit"
               /\ iconCall'.created = 0
               /\ m_evictionCount' = m_evictionCount
               /\ DOMAIN m_fontTextureCache' = DOMAIN m_fontTextureCache
               /\ \A j \in DOMAIN m_fontTextureCache \ {k} :
                     m_fontTextureCache'[j] = m_fontTextureCache[j]
               /\ m_fontTextureCache'[k].accessCount
                     = m_fontTextureCache[k].accessCount + 1
               /\ m_fontTextureCache'[k].lastAccessTime = iconNow'
               /\ iconNow' >= iconNow]_vars

\* the same key was requested again after the request that inserted it
C12_Witness ==
    /\ iconCall.op = "getTextureInfo"
    /\ iconCall.path = "hit"
    /\ m_fontTextureCache[iconCall.key].accessCount = 2
    /\ m_evictionCount = 0

\* C13: an execute call that records and submits a frame adds exactly one to
\* the frame counter (modulo the counter width), every call that returns early
\* leaves it unchanged; the slot used is the counter modulo
\* MAX_FRAMES_IN_FLIGHT, and the next submitted frame uses the other slot,
\* also when the counter wraps.
C13_FrameCounter ==
    [][cbCall'.op = "execute" =>
         /\ cbCall'.slot = m_frameIndex % MAX_FRAMES_IN_FLIGHT
         /\ cbCall'.path = "submitted"
               => /\ m_frameIndex' = (m_frameIndex + 1) % FrameIndexModulus
                  /\ m_frameIndex' % MAX_FRAMES_IN_FLIGHT # cbCall'.slot
         /\ cbCall'.path # "submitted" => m_frameIndex' = m_frameIndex]_vars

\* the frame submitted with the largest counter value: the counter wrapped
C13_Witness ==
    /\ cbCall.op = "execute"
    /\ cbCall.path = "submitted"
    /\ cbCall.slot = MAX_FRAMES_IN_FLIGHT - 1
    /\ m_frameIndex = 0

\* the resize policy for one capacity: it never shrinks, stays when it
\* suffices, and becomes max(needed, 2 * previous) when it is too small
CapacityPolicy(previous, current, needed) ==
    /\ current >= previous
    /\ previous >= needed => current = previous
    /\ previous < needed
          => current = (IF needed > 2 * previous THEN needed ELSE 2 * previous)

\* the policy for a capacity that resizeBuffers may not have reached
CapacityPolicyIfReached(previous, current, needed) ==
    current = previous \/ CapacityPolicy(previous, current, needed)

\* no recorded capacity decreases in a step other than cleanup
CapacitiesNeverShrink ==
    cbCall'.op # "cleanup" =>
        /\ m_transferBufferSize' >= m_transferBufferSize
        /\ \A slot \in FrameSlots :
              /\ m_frameResources'[slot].vertexBufferSize
                    >= m_frameResources[slot].vertexBufferSize
              /\ m_frameResources'[slot].indexBufferSize
                    >= m_frameResources[slot].indexBufferSize

\* the frames with which execute reaches resizeBuffers
ResizingFrames ==
    {batches \in BatchLists :
        /\ cbDevice
        /\ CalculateBatchTotals(batches).vertices # 0
        /\ CalculateBatchTotals(batches).indices # 0}

\* what resizeBuffers does for a frame in the current state
ResizeNow(batches, fail) ==
    ResizeBuffers(m_frameResources[FrameSlot(m_frameIndex)], m_transferBufferSize,
                  m_transferBuffer,
                  CalculateBatchTotals(batches).vertices * VertexBytes,
                  CalculateBatchTotals(batches).indices * INDEX_SIZE, fail)

\* every capacity follows the policy whenever resizeBuffers is reached
ResizeAlwaysGrows ==
    \A batches \in ResizingFrames, fail \in CbFailures :
        LET needV == CalculateBatchTotals(batches).vertices * VertexBytes
            needI == CalculateBatchTotals(batches).indices * INDEX_SIZE
            before == m_frameResources[FrameSlot(m_frameIndex)]
            rs == ResizeNow(batches, fail)
        IN  /\ CapacityPolicy(m_transferBufferSize, rs.tSize, needV + needI)
            /\ CapacityPolicy(before.vertexBufferSize, rs.frame.vertexBufferSize, needV)
            /\ CapacityPolicy(before.indexBufferSize, rs.frame.indexBufferSize, needI)

\* a capacity changes only by the policy, and all three follow it and
\* suffice when resizeBuffers returns true
ResizeGrowsUntilFailure ==
    \A batches \in ResizingFrames, fail \in CbFailures :
        LET needV == CalculateBatchTotals(batches).vertices * VertexBytes
            needI == CalculateBatchTotals(batches).indices * INDEX_SIZE
            before == m_frameResources[FrameSlot(m_frameIndex)]
            rs == ResizeNow(batches, fail)
        IN  /\ CapacityPolicy(m_transferBufferSize, rs.tSize, needV + needI)
            /\ CapacityPolicyIfReached(before.vertexBufferSize,
                                       rs.frame.vertexBufferSize, needV)
            /\ CapacityPolicyIfReached(before.indexBufferSize,
                                       rs.frame.indexBufferSize, needI)
            /\ rs.ok =>
                  /\ CapacityPolicy(before.vertexBufferSize,
                                    rs.frame.vertexBufferSize, needV)
                  /\ CapacityPolicy(before.indexBufferSize,
                                    rs.frame.indexBufferSize, needI)
                  /\ rs.tSize >= needV + needI
                  /\ rs.frame.vertexBufferSize >= needV
                  /\ rs.frame.indexBufferSize >= needI

\* C14 as stated: between cleanups no recorded capacity decreases; whenever
\* execute reaches resizeBuffers each of the three capacities that is smaller
\* than the bytes needed becomes max(needed, 2 * previous); and after
\* resizeBuffers returned true all three are at least the bytes needed.
C14_Original == [](ResizeAlwaysGrows) /\ [][CapacitiesNeverShrink]_vars

\* C14 amended: between cleanups no recorded capacity decreases; a capacity
\* changes only to max(needed, 2 * previous) and only when it is smaller than
\* the bytes needed; when resizeBuffers returns true each of the three
\* capacities follows that policy and is at least the bytes needed, whereas a
\* failed buffer creation returns at once and leaves the capacities of the
\* buffers after it unchanged.
C14_CapacityPolicy == [](ResizeGrowsUntilFailure) /\ [][CapacitiesNeverShrink]_vars

\* a submitted frame whose transfer buffer had been doubled past the need of
\* the largest frame
C14_Witness ==
    /\ cbCall.op = "execute"
    /\ cbCall.path = "submitted"
    /\ m_transferBufferSize = 2 * (2 * VertexBytes + INDEX_SIZE)
    /\ m_frameResources[cbCall.slot].vertexBufferSize = 2 * VertexBytes

\* C15: initialize() without a device creates devices in list order starting
\* with the first backend and stops at the first success, whose index and
\* name become the current backend and driver; it returns false only after
\* the creation failed for every backend, leaving the manager without a
\* device; with a device it returns true, makes no SDL call and changes no
\* field.
C15_InitializeFirstSuccess ==
    [][devCall'.op = "initialize" =>
         LET log == devCall'.log
             tried == Len(log)
         IN  IF m_gpuDevice # NoDevice
             THEN /\ devCall'.ret
                  /\ log = << >>
                  /\ UNCHANGED <<m_gpuDevice, m_gpuDriver, m_claimedWindows,
                                 m_currentBackendIndex>>
             ELSE /\ tried \in 1..NumBackends
                  /\ \A n \in 1..tried :
                        log[n] = <<"create", n - 1, devCall'.ret /\ n = tried>>
                  /\ devCall'.ret
                        => /\ m_gpuDevice' = tried - 1
                           /\ m_currentBackendIndex' = tried - 1
                           /\ m_gpuDriver' = Backends[tried]
                  /\ ~devCall'.ret
                        => /\ tried = NumBackends
                           /\ m_gpuDevice' = NoDevice
                           /\ UNCHANGED <<m_gpuDriver, m_currentBackendIndex>>
                  /\ UNCHANGED m_claimedWindows]_vars

\* initialize() succeeded on the second backend after the first one failed
C15_Witness ==
    /\ devCall.op = "initialize"
    /\ devCall.ret
    /\ devCall.log = << <<"create", 0, FALSE>>, <<"create", 1, TRUE>> >>
    /\ m_currentBackendIndex = 1
    /\ m_gpuDriver = Backends[2]

\* C16: the atlas size is a power of two that never exceeds the limit; a step
\* changes it only by doubling it inside the expand() of an addGlyph, so it
\* never decreases and clear() leaves it unchanged; and an addGlyph whose
\* expand() is refused at the limit changes neither the size, nor the
\* shelves, nor the glyph map.
C16_SizeOnlyDoubles ==
    /\ [](m_size \in AtlasSizes /\ m_size <= ATLAS_MAX_SIZE)
    /\ [][/\ m_size' >= m_size
          /\ m_size' # m_size
                => /\ m_size' = 2 * m_size
                   /\ atlasCall'.op = "addGlyph"
                   /\ atlasCall'.expanded
          /\ atlasCall'.op = "clear" => m_size' = m_size
          /\ (/\ atlasCall'.op = "addGlyph"
              /\ atlasCall'.path = "expandFailed"
              /\ m_size >= ATLAS_MAX_SIZE)
                => UNCHANGED <<m_size, m_shelves, m_currentShelfY, m_glyphMap>>]_vars

\* an addGlyph found no room in an atlas of the largest size that holds a
\* glyph, and its expand() was refused
C16_Witness ==
    /\ atlasCall.op = "addGlyph"
    /\ atlasCall.path = "expandFailed"
    /\ m_size = ATLAS_MAX_SIZE
    /\ m_glyphMap # << >>
    /\ m_shelves # << >>

\* the bytes of text from offset pos up to offset end are whole well-formed
\* code points
RECURSIVE WellFormedBetween(_, _, _)
WellFormedBetween(text, pos, end) ==
    IF pos >= end THEN pos = end
    ELSE LET n == IF text[pos + 1] < 128 THEN 1
                  ELSE IF text[pos + 1] \in 194..223 THEN 2
                  ELSE IF text[pos + 1] \in 224..239 THEN 3
                  ELSE IF text[pos + 1] \in 240..244 THEN 4
                  ELSE 0
         IN  /\ n > 0
             /\ pos + n <= end
             /\ \A k \in (pos + 2)..(pos + n) : text[k] \in 128..191
             /\ WellFormedBetween(text, pos + n, end)

\* a multi-byte lead byte at offset pos is followed by a byte that is not of
\* the form 10xxxxxx
MalformedAt(text, pos) ==
    /\ pos + 2 <= Len(text)
    /\ text[pos + 1] \in 192..247
    /\ text[pos + 2] \notin 128..191

\* C17: when measureString meets, after well-formed code points, a multi-byte
\* lead byte followed by a byte that is no continuation byte, decodeUTF8
\* reports length 0 there and the call consumes no byte from that offset on.
C17_StopsAtMalformedLead ==
    (measCall.op = "measureString" /\ measFont.face) =>
        \A pos \in measCall.from..Len(measText) :
            (/\ WellFormedBetween(measText, measCall.from, pos)
             /\ MalformedAt(measText, pos))
                => /\ DecodeUTF8(SubSeq(measText, pos + 1, Len(measText))).len = 0
                   /\ measPos <= pos

\* is text a proper, non-empty beginning of a multi-byte encoding
TruncatedEncoding(text) ==
    \E cp \in DecodeCodepoints :
        /\ text # << >>
        /\ Len(text) < Len(EncodeUTF8(cp))
        /\ text = SubSeq(EncodeUTF8(cp), 1, Len(text))

\* C18: decodeUTF8 applied to a string that begins with the standard UTF-8
\* encoding of a code point returns that code point and the byte length of
\* the encoding, which is 1, 2, 3 or 4; applied to a multi-byte encoding cut
\* short by the end of the string, or to the empty string, it returns 0.
C18_DecodeRoundTrip ==
    decCall.op = "decodeUTF8" =>
        /\ \A cp \in DecodeCodepoints :
              LET enc == EncodeUTF8(cp)
              IN  (Len(decText) >= Len(enc) /\ SubSeq(decText, 1, Len(enc)) = enc)
                    => /\ decCall.codepoint = cp
                       /\ decCall.len = Len(enc)
                       /\ decCall.len \in 1..4
        /\ (decText = << >> \/ TruncatedEncoding(decText)) => decCall.len = 0

\* the largest code point was decoded from its four bytes
C18_Witness ==
    /\ decCall.op = "decodeUTF8"
    /\ decText = <<244, 143, 191, 191>>
    /\ decCall.len = 4
    /\ decCall.codepoint = 1114111

\* the exact sum, in 1/64 pixel, of the kernings and advances that
\* measureString counts for the code points of text before offset end
RECURSIVE ExactWidth64(_, _, _, _, _)
ExactWidth64(font, text, bytePos, end, prevGlyphIndex) ==
    IF bytePos >= end THEN 0
    ELSE LET d == DecodeUTF8(SubSeq(text, bytePos + 1, Len(text)))
             glyphIndex == GlyphIndexOf(font, d.codepoint)
             kerning == IF font.kern # 0 /\ prevGlyphIndex # 0 /\ glyphIndex # 0
                        THEN KerningX(font) ELSE 0
             advance == IF GlyphLoads(font, d.codepoint)
                        THEN AdvanceX(font, d.codepoint) ELSE 0
         IN  IF d.len = 0 THEN 0
             ELSE kerning + advance
                  + ExactWidth64(font, text, bytePos + d.len, end, glyphIndex)

\* the ceiling of x / 64
CeilPixels(x) == -((-x) \div 64)

\* C19: the width measureString returns for a call that measured the text to
\* its end is the ceiling of the exact sum of the advances and kernings of
\* the consumed code points, taken in 1/64 pixel.
C19_CeilingOfExactSum ==
    (/\ measCall.op = "measureString"
     /\ measFont.face
     /\ measCall.from = 0
     /\ measCall.consumed = Len(measText))
        => measCall.width
              = CeilPixels(ExactWidth64(measFont, measText, 0, Len(measText), 0))

\* the atlas holds exactly the glyph of code point c, added to an empty atlas
HoldsOnly(c) ==
    /\ DOMAIN m_glyphMap = {c}
    /\ m_shelves = << [y |-> 0, height |-> m_glyphMap[c].height + m_padding,
                       x |-> m_glyphMap[c].width + m_padding] >>
    /\ m_currentShelfY = m_glyphMap[c].height + m_padding
    /\ m_glyphMap[c].x = 0
    /\ m_glyphMap[c].y = 0

\* the step packs a second glyph next to the only glyph c
PacksSecond(c) ==
    /\ HoldsOnly(c)
    /\ atlasCall'.op = "addGlyph"
    /\ atlasCall'.codepoint # c
    /\ atlasCall'.path = "packed"

\* C20 as stated: a second glyph packed into an atlas that holds one glyph,
\* the two widths totalling less than the atlas width, is placed on the
\* shelf of the first (same y) and opens no shelf.
C20_Original ==
    [][\A c \in AtlasCodepoints :
          (PacksSecond(c) /\ m_glyphMap[c].width + atlasCall'.ret.width < m_size)
            => /\ atlasCall'.ret.y = m_glyphMap[c].y
               /\ Len(m_shelves') = Len(m_shelves)]_vars

\* C20 amended: a second glyph packed into an atlas that holds one glyph is
\* placed on the shelf of the first (same y, no new shelf, no expansion)
\* exactly when it is not taller than the first and the two widths together
\* with the padding of each glyph are at most the atlas width.
C20_SameShelfWhenItFits ==
    [][\A c \in AtlasCodepoints :
          PacksSecond(c)
            => ((/\ atlasCall'.ret.y = m_glyphMap[c].y
                 /\ Len(m_shelves') = Len(m_shelves)
                 /\ ~atlasCall'.expanded)
                <=> (/\ atlasCall'.ret.height <= m_glyphMap[c].height
                     /\ m_glyphMap[c].width + atlasCall'.ret.width + 2 * m_padding
                           <= m_size))]_vars

\* two glyphs added to an empty padded atlas share its only shelf
C20_Witness ==
    /\ atlasCall.op = "addGlyph"
    /\ atlasCall.path = "packed"
    /\ ~atlasCall.expanded
    /\ m_padding = 1
    /\ Cardinality(DOMAIN m_glyphMap) = 2
    /\ Len(m_shelves) = 1
    /\ \A c \in DOMAIN m_glyphMap : m_glyphMap[c].y = 0
    /\ \E c \in DOMAIN m_glyphMap :
          m_shelves[1].x = m_glyphMap[c].x + m_glyphMap[c].width + m_padding

\* the cache key of the renderGlyph call of this step
RenderedKey ==
    MakeGlyphCacheKey(fontCall'.codepoint,
                      IF fontCall'.fontSize > 0 THEN fontCall'.fontSize ELSE m_fontSize)

\* a glyph in the cache stays there, unchanged, in every step that is not
\* clearCache()
CacheKept ==
    fontCall'.op # "clearCache"
        => \A k \in DOMAIN m_glyphCache :
              k \in DOMAIN m_glyphCache' /\ m_glyphCache'[k] = m_glyphCache[k]

\* a renderGlyph that rasterized successfully put its glyph into the cache
RenderedIsCached ==
    (fontCall'.op = "renderGlyph" /\ fontCall'.path = "rendered")
        => /\ RenderedKey \in DOMAIN m_glyphCache'
           /\ m_glyphCache'[RenderedKey] = fontCall'.advanceX

\* the renderGlyph call of this step returned the cached GlyphInfo without
\* rasterizing and changed neither the active size, nor the pixel size of the
\* face, nor the cache
ServedFromCache ==
    /\ fontCall'.path = "cached"
    /\ fontCall'.advanceX = m_glyphCache[RenderedKey]
    /\ UNCHANGED <<m_fontSize, ftPixelSize, m_glyphCache>>

\* C21 as stated: a glyph that was rasterized successfully is served from the
\* cache by every later renderGlyph call for the same code point and size (to
\* 0.1 pixel), until clearCache() is called.
C21_Original ==
    [][/\ CacheKept
       /\ RenderedIsCached
       /\ (fontCall'.op = "renderGlyph" /\ RenderedKey \in DOMAIN m_glyphCache)
            => ServedFromCache]_vars

\* C21 amended: a glyph that was rasterized successfully stays in the glyph
\* cache until clearCache(), and every renderGlyph call for its code point
\* and size made while the manager has a face is served from the cache; a
\* call made after a failing loadFromMemory dropped the face returns the
\* empty GlyphInfo.
C21_CachedGlyphReturned ==
    [][/\ CacheKept
       /\ RenderedIsCached
       /\ (fontCall'.op = "renderGlyph" /\ RenderedKey \in DOMAIN m_glyphCache)
            => IF m_ftFace THEN ServedFromCache
               ELSE fontCall'.path = "noFace" /\ fontCall'.advanceX = 0]_vars

\* a cached glyph of advance 1 was returned for a size other than the active
\* one
C21_Witness ==
    /\ fontCall.op = "renderGlyph"
    /\ fontCall.path = "cached"
    /\ fontCall.fontSize > 0
    /\ Abs(fontCall.fontSize - m_fontSize) > 1
    /\ fontCall.advanceX = 1
    /\ m_glyphCache[MakeGlyphCacheKey(fontCall.codepoint, fontCall.fontSize)] = 1

\* the values of the ladder
Ladder == {STANDARD_SIZES[i] : i \in 1..Len(STANDARD_SIZES)}

\* q is the smallest ladder value that is >= size, or 128 above the ladder
OnRung(size, q) ==
    IF size > 128 THEN q = 128
    ELSE /\ q \in Ladder
         /\ q >= size
         /\ \A r \in Ladder : r >= size => q <= r

\* C22: the quantized size of every request is the smallest ladder value
\* that is >= the requested size, and 128 for a size above 128; two requests
\* for the same font and code point whose sizes fall on the same rung get
\* the same cache key, and requests on different rungs get different keys.
C22_QuantizedToLadder ==
    keyCall.op = "getTextureInfo" =>
        /\ OnRung(keySizeA, keyCall.quantizedA)
        /\ OnRung(keySizeB, keyCall.quantizedB)
        /\ (keyCall.quantizedA = keyCall.quantizedB)
              <=> (keyCall.cacheKeyA = keyCall.cacheKeyB)
        /\ (\E r \in Ladder : OnRung(keySizeA, r) /\ OnRung(keySizeB, r))
              => keyCall.cacheKeyA = keyCall.cacheKeyB

\* sizes 17 and 24 share the rung 24 and the cache key
C22_Witness ==
    /\ keyCall.op = "getTextureInfo"
    /\ keySizeA = 17
    /\ keySizeB = 24
    /\ keyCall.quantizedA = 24
    /\ keyCall.cacheKeyA = keyCall.cacheKeyB

\* C23: WrapTextLines with wrap mode NONE or with maxWidth <= 0 returns
\* exactly one line, which is the input text byte for byte, newline
\* characters included.
C23_UnwrappedIsInput ==
    (wrapCall.op = "WrapTextLines" /\ (wrapMode = "NONE" \/ wrapMaxWidth <= 0))
        => /\ Len(wrapCall.lines) = 1
           /\ wrapCall.lines[1] = wrapText

\* a text of the largest length with a newline in it came back as one line
\* although a wrapping mode was asked for, because maxWidth is negative
C23_Witness ==
    /\ wrapCall.op = "WrapTextLines"
    /\ wrapMode = "Word"
    /\ wrapMaxWidth < 0
    /\ Len(wrapText) = MaxTextLen
    /\ \E k \in 1..Len(wrapText) : wrapText[k] = 10
    /\ wrapCall.lines = << wrapText >>

\* C24: in every call that destroys a device (cleanup, and the teardown in
\* the fallback of claimWindow) the device is destroyed right after its
\* window claims were released, and these right after the wait for that
\* device to be idle; after cleanup the device is null and no window is
\* claimed, and after a fallback only the window just claimed can be claimed.
C24_IdleBeforeRelease ==
    devCall.op \in {"cleanup", "claimWindow"} =>
        LET log == devCall.log
        IN  /\ \A n \in 1..Len(log) :
                  log[n][1] \in {"releaseAll", "destroy"}
                    => \E w \in 1..(n - 1) :
                          /\ log[w][1] = "waitIdle"
                          /\ \A k \in (w + 1)..(n - 1) : log[k][1] = "releaseAll"
                          /\ log[n][1] = "destroy" => log[w][2] = log[n][2]
            /\ devCall.op = "cleanup"
                  => (m_gpuDevice = NoDevice /\ m_claimedWindows = {})
            /\ (\E n \in 1..Len(log) : log[n][1] = "destroy")
                  => m_claimedWindows \subseteq
                        (IF devCall.op = "claimWindow" /\ devCall.ret
                         THEN {devCall.window} ELSE {})

\* a claimWindow fell back to another backend while a window was claimed:
\* the old device was idle before that claim and the device were released
C24_Witness ==
    /\ devCall.op = "claimWindow"
    /\ devCall.path = "fallback"
    /\ devCall.ret
    /\ \E n \in 1..Len(devCall.log) :
          /\ devCall.log[n][1] = "releaseAll"
          /\ devCall.log[n][2] # {}
          /\ devCall.log[n - 1][1] = "waitIdle"
          /\ devCall.log[n + 1][1] = "destroy"

\* C25: in every reachable state a positive recorded capacity of the
\* transfer buffer, of a slot's vertex buffer or of a slot's index buffer
\* means that this buffer exists and has that capacity.
C25_CapacityMeansBuffer ==
    /\ m_transferBufferSize > 0 => m_transferBuffer = m_transferBufferSize
    /\ \A slot \in FrameSlots :
          /\ m_frameResources[slot].vertexBufferSize > 0
                => m_frameResources[slot].vertexBuffer
                      = m_frameResources[slot].vertexBufferSize
          /\ m_frameResources[slot].indexBufferSize > 0
                => m_frameResources[slot].indexBuffer
                      = m_frameResources[slot].indexBufferSize

\* C26: a getTextureInfo call that returns null has removed no cache entry
\* and has left evictionCount as it was.
C26_NullLeavesCache ==
    (iconCall.op = "getTextureInfo" /\ iconCall.path = "null")
        => (iconCall.removed = {} /\ iconCall.evicted = 0)

\* C27: a claimed window stays claimed in every step that is not a cleanup()
\* or an unclaimWindow for that window; in particular a claimWindow for
\* another window keeps it claimed.
C27_ClaimsPersist ==
    [][\A w \in m_claimedWindows :
          (/\ devCall'.op # "cleanup"
           /\ ~(devCall'.op = "unclaimWindow" /\ devCall'.window = w))
             => w \in m_claimedWindows']_vars

\* the sum of the advances of the code points of text that the font can
\* rasterize
RECURSIVE AdvanceSum(_, _, _)
AdvanceSum(face, text, bytePos) ==
    IF bytePos >= Len(text) THEN 0
    ELSE LET d == DecodeUTF8(SubSeq(text, bytePos + 1, Len(text)))
         IN  IF d.len = 0 THEN 0
             ELSE PrepRenderGlyph(face, d.codepoint).advanceX
                  + AdvanceSum(face, text, bytePos + d.len)

\* C28: the text width that prepareTextRender reports for a loaded font is
\* the sum of the advances of all code points of the text that the font can
\* rasterize, the ones without pixels (the space) included.
C28_WidthIsSumOfAdvances ==
    (prepCall.op = "prepareTextRender" /\ prepFace.loaded)
        => prepCall.width = AdvanceSum(prepFace, prepText, 0)

\* C29: when addGlyph returns no glyph, every glyph that getGlyph returned
\* before the call is still returned, unchanged, after it.
C29_FailureKeepsGlyphs ==
    (atlasCall.op = "addGlyph" /\ atlasCall.ret = NoGlyph)
        => \A c \in DOMAIN atlasCall.before :
               c \in DOMAIN m_glyphMap /\ m_glyphMap[c] = atlasCall.before[c]

\* the shelves, in creation order, that the claim says can take a glyph
FittingShelves(width, height) ==
    {i \in 1..Len(m_shelves) :
        /\ m_shelves[i].height >= height + m_padding
        /\ m_size - m_shelves[i].x >= width + m_padding}

\* the shelves and the vertical cursor the claim prescribes after
\* allocate(width, height), and the position it returns
AllocateStated(width, height) ==
    LET fits == FittingShelves(width, height)
        first == CHOOSE i \in fits : \A j \in fits : i <= j
    IN  IF fits # {}
        THEN [ok |-> TRUE, x |-> m_shelves[first].x, y |-> m_shelves[first].y,
              shelves |-> [i \in 1..Len(m_shelves) |->
                              IF i = first
                              THEN [y |-> m_shelves[i].y,
                                    height |-> m_shelves[i].height,
                                    x |-> m_shelves[i].x + width + m_padding]
                              ELSE m_shelves[i]],
              shelfY |-> m_currentShelfY]
        ELSE IF m_currentShelfY + height + m_padding <= m_size
        THEN [ok |-> TRUE, x |-> 0, y |-> m_currentShelfY,
              shelves |-> m_shelves \o <<[y |-> m_currentShelfY,
                                          height |-> height + m_padding,
                                          x |-> width + m_padding]>>,
              shelfY |-> m_currentShelfY + height + m_padding]
        ELSE [ok |-> FALSE, x |-> 0, y |-> 0, shelves |-> m_shelves,
              shelfY |-> m_currentShelfY]

\* in the current state allocate does what the claim says, for every glyph
AllocateFirstFit ==
    \A width \in GlyphDims, height \in GlyphDims :
        Allocate(m_shelves, m_currentShelfY, m_size, m_padding, width, height)
            = AllocateStated(width, height)

\* an addGlyph that packed its glyph without expanding left the shelves, the
\* cursor and the glyph position as the claim says
PackedAsStated ==
    (atlasCall'.op = "addGlyph" /\ atlasCall'.path = "packed" /\ ~atlasCall'.expanded)
        => LET a == AllocateStated(atlasCall'.ret.width, atlasCall'.ret.height)
           IN  /\ a.ok
               /\ m_shelves' = a.shelves
               /\ m_currentShelfY' = a.shelfY
               /\ atlasCall'.ret.x = a.x
               /\ atlasCall'.ret.y = a.y

\* C30: allocate places the glyph on the first shelf, in creation order, that
\* is high enough and has enough width left, advancing only that shelf's x
\* cursor; when no shelf fits it opens a new shelf of the padded height at
\* the vertical cursor; when that shelf would pass the atlas height it fails
\* and changes nothing.
C30_FirstFitElseNewShelf == [](AllocateFirstFit) /\ [][PackedAsStated]_vars

\* an addGlyph opened a second shelf because its glyph did not fit the first,
\* and now a smaller glyph fits both shelves and goes to the first
C30_Witness ==
    /\ atlasCall.op = "addGlyph"
    /\ atlasCall.path = "packed"
    /\ ~atlasCall.expanded
    /\ Len(m_shelves) = 2
    /\ atlasCall.ret.x = 0
    /\ atlasCall.ret.y = m_shelves[2].y
    /\ m_shelves[2].y > 0
    /\ \E width \in GlyphDims, height \in GlyphDims :
          /\ FittingShelves(width, height) = {1, 2}
          /\ Allocate(m_shelves, m_currentShelfY, m_size, m_padding, width, height).y
                 = m_shelves[1].y

\* the bytes the last measureString call reported as consumed
ConsumedPrefix ==
    SubSeq(measText, measCall.from + 1, measCall.from + measCall.consumed)

\* C31: the width measureString returns is the width of the bytes it reports
\* as consumed: measuring that prefix alone without a width limit gives the
\* same width.
C31_WidthOfConsumedPrefix ==
    measCall.op = "measureString"
        => measCall.width = MeasureString(measFont, ConsumedPrefix, 0).width

\* the quad's glyph is in the atlas and has the quad's UVs
QuadValid(q) ==
    /\ q.codepoint \in DOMAIN prepAtlas.glyphMap
    /\ LET g == prepAtlas.glyphMap[q.codepoint]
       IN  /\ q.u0 = g.u0
           /\ q.v0 = g.v0
           /\ q.u1 = g.u1
           /\ q.v1 = g.v1

\* C32: every vertex prepareTextRender returns carries UVs that are valid for
\* the atlas as it is when the call returns, also when a later glyph of the
\* same text made the atlas grow.
C32_VerticesMatchAtlas ==
    prepCall.op = "prepareTextRender"
        => \A i \in 1..Len(prepCall.vertices) : QuadValid(prepCall.vertices[i])

\* C33: every entry of the font texture cache belongs to a loaded icon font,
\* so that getTextureInfo for an unloaded font returns null.
C33_CacheOnlyLoadedFonts ==
    \A k \in DOMAIN m_fontTextureCache : k[1] \in m_fonts

\* C34: a glyph that renderGlyph returns was rasterized from the font data
\* that is loaded now: glyphs cached before a successful loadFromMemory with
\* other font data are not served.
C34_GlyphOfLoadedFont ==
    (fontCall.op = "renderGlyph" /\ fontCall.path \in {"cached", "rendered"})
        => fontCall.from = ftFontData

\* C35: a getTextureInfo call removes at most one cache entry and raises
\* m_evictionCount by at most one: the single LRU eviction always brings the
\* cache below capacity, so the batch eviction never runs.
C35_AtMostOneEviction ==
    iconCall.op = "getTextureInfo"
        => /\ Cardinality(iconCall.removed) <= 1
           /\ iconCall.evicted <= 1
           /\ iconCall.evicted = Cardinality(iconCall.removed)

\* a miss at capacity evicted exactly one entry
C35_Witness ==
    /\ iconCall.op = "getTextureInfo"
    /\ iconCall.held = MAX_FONT_CACHE_SIZE
    /\ Cardinality(iconCall.removed) = 1
    /\ iconCall.evicted = 1

\* the memcpy calls of one kind that uploadToTransferBuffer makes for batches
UploadsOf(batches, kind) ==
    SelectSeq(UploadToTransferBuffer(batches,
                  CalculateBatchTotals(batches).vertices * VertexBytes),
              LAMBDA u : u.kind = kind)

\* the batches that have data of one kind, in batch order
BatchesWith(batches, kind) ==
    SelectSeq([b \in 1..Len(batches) |-> b],
              LAMBDA b : IF kind = "v" THEN batches[b].nv > 0 ELSE batches[b].ni > 0)

\* the blocks of one kind lie one behind the other from offset start, one per
\* batch with such data, in batch order and with the batch's byte size
Contiguous(batches, kind, start) ==
    LET ups == UploadsOf(batches, kind)
        bs == BatchesWith(batches, kind)
    IN  /\ Len(ups) = Len(bs)
        /\ \A n \in 1..Len(ups) :
              /\ ups[n].batch = bs[n]
              /\ ups[n].size = IF kind = "v" THEN batches[bs[n]].nv * VertexBytes
                               ELSE batches[bs[n]].ni * INDEX_SIZE
              /\ ups[n].offset = IF n = 1 THEN start
                                 ELSE ups[n - 1].offset + ups[n - 1].size
        /\ \A n \in 1..Len(ups) :
              ups[n].offset + ups[n].size
                  <= CalculateBatchTotals(batches).vertices * VertexBytes
                     + CalculateBatchTotals(batches).indices * INDEX_SIZE

\* C36: for every frame that execute uploads, the transfer buffer holds the
\* vertex data of all batches contiguously in batch order from offset 0 and
\* the index data from offset totalVertexSize, every byte written lies below
\* the capacity of the transfer buffer, and the copy pass of a submitted frame
\* moves exactly these two regions into the vertex and the index buffer of
\* the current slot, within the capacities of these buffers.
C36_UploadLayout ==
    /\ \A batches \in BatchLists :
          /\ Contiguous(batches, "v", 0)
          /\ Contiguous(batches, "i", CalculateBatchTotals(batches).vertices * VertexBytes)
    /\ (cbCall.op = "execute" /\ cbCall.uploaded # <<0, 0>>)
          => /\ cbCall.uploaded[1] + cbCall.uploaded[2] <= m_transferBuffer
             /\ cbCall.path = "submitted"
                   => /\ cbCall.uploaded[1] <= m_frameResources[cbCall.slot].vertexBuffer
                      /\ cbCall.uploaded[2] <= m_frameResources[cbCall.slot].indexBuffer

\* C37: for well-formed UTF-8 input every line that WrapTextLines produces in
\* Word or Char mode is well-formed UTF-8: no line break falls inside a
\* multi-byte code point, also when an overlong word is broken at character
\* level.
C37_LinesWellFormed ==
    (/\ wrapCall.op = "WrapTextLines"
     /\ wrapMode \in {"Word", "Char"}
     /\ WellFormedFrom(wrapText, 0))
        => \A n \in 1..Len(wrapCall.lines) : WellFormedFrom(wrapCall.lines[n], 0)

\* an overlong word that holds a two-byte code point was broken at character
\* level, one line being the two-byte code point alone
C37_Witness ==
    /\ wrapCall.op = "WrapTextLines"
    /\ wrapMode = "Word"
    /\ wrapMaxWidth > 0
    /\ WellFormedFrom(wrapText, 0)
    /\ \A k \in 1..Len(wrapText) : wrapText[k] \notin {10, 32}
    /\ Len(wrapCall.lines) >= 2
    /\ \E n \in 1..Len(wrapCall.lines) : wrapCall.lines[n] = <<195, 169>>

\* C38: for well-formed UTF-8 text and maxWidth > 0 the string GetTailThatFits
\* returns is a suffix of the text that begins on a code-point boundary.
C38_TailOnBoundary ==
    (/\ wrapCall.op = "GetTailThatFits"
     /\ wrapMaxWidth > 0
     /\ WellFormedFrom(wrapText, 0))
        => /\ Len(wrapCall.tail) <= Len(wrapText)
           /\ wrapCall.tail = SubSeq(wrapText, Len(wrapText) - Len(wrapCall.tail) + 1,
                                     Len(wrapText))
           /\ WellFormedFrom(wrapCall.tail, 0)

\* the first n lines one behind the other, an empty line standing for emptyAs
RECURSIVE JoinLines(_, _, _)
JoinLines(lines, n, emptyAs) ==
    IF n = 0 THEN << >>
    ELSE JoinLines(lines, n - 1, emptyAs)
         \o (IF lines[n] = << >> THEN emptyAs ELSE lines[n])

\* the bytes that are not a tab, a newline or a space
NonWhitespace(str) == SelectSeq(str, LAMBDA b : b \notin {9, 10, 32})

\* C39: WrapTextLines in Word or Char mode loses, duplicates and reorders no
\* text: the non-whitespace bytes of the output lines, one line after the
\* other, are the non-whitespace bytes of the input; in Char mode the lines
\* of each paragraph concatenate to that paragraph (the lines, with every
\* empty line read as the newline it stands for, give back the text).
C39_NoTextLost ==
    (wrapCall.op = "WrapTextLines" /\ wrapMode \in {"Word", "Char"})
        => /\ NonWhitespace(JoinLines(wrapCall.lines, Len(wrapCall.lines), << >>))
                  = NonWhitespace(wrapText)
           /\ (wrapMode = "Char" /\ wrapMaxWidth > 0)
                  => JoinLines(wrapCall.lines, Len(wrapCall.lines), <<10>>) = wrapText

\* a paragraph was wrapped into two lines in Char mode and a newline followed
C39_Witness ==
    /\ wrapCall.op = "WrapTextLines"
    /\ wrapMode = "Char"
    /\ wrapMaxWidth > 0
    /\ Len(wrapText) = 3
    /\ wrapText[3] = 10
    /\ Len(wrapCall.lines) = 3
    /\ wrapCall.lines[1] # << >>
    /\ wrapCall.lines[2] # << >>
    /\ wrapCall.lines[3] = << >>

\* the sum of the heights of the first n shelves
RECURSIVE ShelfHeights(_, _)
ShelfHeights(shelves, n) ==
    IF n = 0 THEN 0 ELSE ShelfHeights(shelves, n - 1) + shelves[n].height

\* the shelves tile the texture from the top and their cursors stay inside it
ShelvesInsideAtlas ==
    /\ \A i \in 1..Len(m_shelves) :
          /\ m_shelves[i].x <= m_size
          /\ m_shelves[i].y = ShelfHeights(m_shelves, i - 1)
    /\ m_currentShelfY = ShelfHeights(m_shelves, Len(m_shelves))
    /\ m_currentShelfY <= m_size

\* the glyph with its padding lies inside the texture and inside one shelf
GlyphInsideAtlas(g) ==
    /\ (g.x + g.width + m_padding) <= m_size
    /\ (g.y + g.height + m_padding) <= m_size
    /\ \E i \in 1..Len(m_shelves) :
          /\ g.y = m_shelves[i].y
          /\ (g.height + m_padding) <= m_shelves[i].height
          /\ (g.x + g.width + m_padding) <= m_shelves[i].x

\* a UV kept as <<numerator, denominator>> lies in [0,1]
UVInUnit(uv) == 0 <= uv[1] /\ uv[1] <= uv[2]

\* C40: in every reachable state of a TextureAtlas every glyph of the glyph
\* map lies, with its padding, inside the texture and inside its shelf: each
\* shelf cursor is at most the atlas size, each shelf starts where the
\* previous ones end, the vertical cursor is the sum of the shelf heights and
\* at most the atlas size, and every stored UV is within [0,1].
C40_GlyphsInsideAtlas ==
    /\ ShelvesInsideAtlas
    /\ \A c \in DOMAIN m_glyphMap :
          /\ GlyphInsideAtlas(m_glyphMap[c])
          /\ UVInUnit(m_glyphMap[c].u0) /\ UVInUnit(m_glyphMap[c].v0)
          /\ UVInUnit(m_glyphMap[c].u1) /\ UVInUnit(m_glyphMap[c].v1)

====
